---- MODULE Spec2Model ----
(***************************************************************************)
(* Payroll back end of yog-financial: the in-memory workspace repository,  *)
(* the policy-snapshot merge, the rules_v1 payroll calculation and the     *)
(* upload pipeline (routes/upload.py, workers/pipeline.py, core/state.py). *)
(*                                                                         *)
(* Decimal values are exact: a value n * 10^(-s) is the record             *)
(* [n |-> n, s |-> s], kept in lowest terms (no trailing zero digit), so   *)
(* that two equal decimals are the same record.  Python's None is the      *)
(* record None.  A JSON value is [num |-> decimal] or [map |-> function    *)
(* from keys to JSON values].                                              *)
(***************************************************************************)
EXTENDS Integers, Sequences, FiniteSets, TLC

VARIABLES
    workspaces,   \* InMemoryWorkspaceRepository._workspaces: ws_id -> WorkspaceState
    TAX_TABLE,    \* rules_v1.TAX_TABLE, loaded once at import
    response,     \* what the last operation returned to its caller
    hash_seed,    \* the string-hash seed of the process (fixes set iteration order)
    state_store,  \* core.state.StateStore._workspaces: ws_id -> WorkspaceState
    job_counter,  \* core.state.StateStore._job_counter
    lock,         \* PipelineWorker._lock: 0 when free, else the call holding it
    calls         \* the upload_file calls in flight: call -> its position and locals

pipeline_vars == <<state_store, job_counter, lock, calls>>

vars == <<workspaces, TAX_TABLE, response, hash_seed, pipeline_vars>>

----------------------------------------------------------------------------
(* Bounds of the model *)

MaxFacts == 2
MaxPolicies == 2
MaxChain == 3

----------------------------------------------------------------------------
(* decimal.Decimal *)

None == [null |-> TRUE]

RECURSIVE Pow10(_)
Pow10(k) == IF k <= 0 THEN 1 ELSE 10 * Pow10(k - 1)

Abs(i) == IF i < 0 THEN -i ELSE i

MaxOf(i, j) == IF i >= j THEN i ELSE j

RECURSIVE DNorm(_)
DNorm(d) ==
    IF d.s > 0 /\ d.n % 10 = 0
    THEN DNorm([n |-> d.n \div 10, s |-> d.s - 1])
    ELSE d

Dec(n, s) == DNorm([n |-> n, s |-> s])

Zero == Dec(0, 0)
One == Dec(1, 0)

\* the numerator of d at scale s (s >= d.s)
AtScale(d, s) == d.n * Pow10(s - d.s)

DAdd(a, b) ==
    LET s == MaxOf(a.s, b.s)
    IN  Dec(AtScale(a, s) + AtScale(b, s), s)

DSub(a, b) ==
    LET s == MaxOf(a.s, b.s)
    IN  Dec(AtScale(a, s) - AtScale(b, s), s)

DMul(a, b) == Dec(a.n * b.n, a.s + b.s)

DLe(a, b) ==
    LET s == MaxOf(a.s, b.s)
    IN  AtScale(a, s) <= AtScale(b, s)

DLt(a, b) == DLe(a, b) /\ a # b

\* bool(Decimal): zero is falsy
Truthy(d) == d # None /\ d.n # 0

\* Python's "x or y" on an Optional[Decimal]
OrElse(x, y) == IF Truthy(x) THEN x ELSE y

Quantize(value) ==
    IF value.s <= 2 THEN value
    ELSE LET p == Pow10(value.s - 2)
             a == Abs(value.n)
             q == a \div p
             r == a % p
             m == IF 2 * r >= p THEN q + 1 ELSE q
         IN  Dec((IF value.n < 0 THEN -1 ELSE 1) * m, 2)

----------------------------------------------------------------------------
(* backend/core/name_normalize.py: a name is a sequence of characters *)

Chars == {"a", "b", "A", "U+FF21", " ", "U+3000", "U+00A8", "U+0308"}

\* the full compatibility decomposition of a character: full-width A and the
\* ideographic space map to A and the space, the spacing diaeresis U+00A8 to
\* a space followed by the combining diaeresis U+0308, and a / A with
\* diaeresis (U+00E4, U+00C4) to the letter followed by U+0308
Decompose(c) ==
    CASE c = "U+FF21" -> <<"A">>
      [] c = "U+3000" -> <<" ">>
      [] c = "U+00A8" -> <<" ", "U+0308">>
      [] c = "U+00E4" -> <<"a", "U+0308">>
      [] c = "U+00C4" -> <<"A", "U+0308">>
      [] OTHER -> <<c>>

RECURSIVE DecomposeAll(_)
DecomposeAll(str) ==
    IF str = << >> THEN << >> ELSE Decompose(Head(str)) \o DecomposeAll(Tail(str))

\* the canonical composite of a starter and a combining mark, "" when none
Composite(base, mark) ==
    CASE base = "a" /\ mark = "U+0308" -> "U+00E4"
      [] base = "A" /\ mark = "U+0308" -> "U+00C4"
      [] OTHER -> ""

\* canonical composition, left to right
RECURSIVE ComposeAll(_, _)
ComposeAll(str, out) ==
    IF str = << >> THEN out
    ELSE IF out # << >> /\ Composite(out[Len(out)], Head(str)) # ""
         THEN ComposeAll(Tail(str),
                  [out EXCEPT ![Len(out)] = Composite(out[Len(out)], Head(str))])
         ELSE ComposeAll(Tail(str), Append(out, Head(str)))

\* unicodedata.normalize("NFKC", name): compatibility decomposition followed
\* by canonical composition
NFKC(name) == ComposeAll(DecomposeAll(name), << >>)

Lower(c) ==
    CASE c = "A" -> "a"
      [] c = "U+FF21" -> "U+FF41"
      [] c = "U+00C4" -> "U+00E4"
      [] OTHER -> c

IsSpace(c) == c \in {" ", "U+3000"}

RECURSIVE LStrip(_)
LStrip(str) == IF str # << >> /\ IsSpace(Head(str)) THEN LStrip(Tail(str)) ELSE str

RECURSIVE RStrip(_)
RStrip(str) ==
    IF str # << >> /\ IsSpace(str[Len(str)])
    THEN RStrip(SubSeq(str, 1, Len(str) - 1))
    ELSE str

IsNonSpace(c) == ~IsSpace(c)

normalize(name) ==
    LET nfkc == NFKC(name)
        stripped == RStrip(LStrip(nfkc))
        normalized == [i \in 1..Len(stripped) |-> Lower(stripped[i])]
    IN  SelectSeq(normalized, IsNonSpace)

----------------------------------------------------------------------------
(* backend/core/policy_utils.py *)

EmptyMap == << >>

IsMap(v) == "map" \in DOMAIN v

Num(d) == [num |-> d]

Text(t) == [str |-> t]

\* truthiness of an Optional[str]
TextTruthy(x) == x # None /\ x.str # ""

\* truthiness of an Optional[dict]
DictTruthy(x) == x # None /\ x # EmptyMap

\* mutant: a key present on both sides is replaced even when both are dicts
MergeNestedDictShallow(existing, incoming) ==
    LET e == IF existing = None THEN EmptyMap ELSE existing
    IN  IF incoming = None THEN e
        ELSE [key \in DOMAIN e \cup DOMAIN incoming |->
                IF key \in DOMAIN incoming THEN incoming[key] ELSE e[key]]

RECURSIVE MergeNestedDict(_, _)
MergeNestedDict(existing, incoming) ==
    LET e == IF existing = None THEN EmptyMap ELSE existing
    IN  IF incoming = None THEN e
        ELSE [key \in DOMAIN e \cup DOMAIN incoming |->
                IF key \in DOMAIN incoming
                THEN IF key \in DOMAIN e /\ IsMap(e[key]) /\ IsMap(incoming[key])
                     THEN [map |-> MergeNestedDict(e[key].map, incoming[key].map)]
                     ELSE incoming[key]
                ELSE e[key]]

numeric_fields ==
    {"base_amount", "base_rate", "ot_weekday_multiplier",
     "ot_weekend_multiplier", "ot_weekday_rate", "ot_weekend_rate"}

json_fields == {"allowances_json", "deductions_json", "tax_json", "social_security_json"}

text_fields ==
    {"valid_from", "valid_to", "source_sheet", "source_row_range",
     "snapshot_hash", "source_file"}

\* mutant: a populated incoming value replaces the existing one
MergeNumericLastWins(existing_value, incoming_value) ==
    IF incoming_value # None THEN incoming_value ELSE existing_value

MergeNumeric(existing_value, incoming_value) ==
    IF existing_value = None /\ incoming_value # None
    THEN incoming_value
    ELSE existing_value

MergeText(existing_value, incoming_value) ==
    IF ~TextTruthy(existing_value) /\ TextTruthy(incoming_value)
    THEN incoming_value
    ELSE existing_value

\* mutant: a different mode of incoming always replaces existing's
MergeModeAlwaysIncoming(existing_numeric, incoming) == incoming.mode

\* existing_numeric is existing_data after the numeric fields were filled in
MergeMode(existing_numeric, incoming) ==
    IF existing_numeric.mode # incoming.mode
    THEN IF existing_numeric.mode = "SALARIED" /\ existing_numeric.base_amount = None
         THEN incoming.mode
         ELSE IF /\ existing_numeric.mode = "HOURLY"
                 /\ existing_numeric.base_rate = None
                 /\ incoming.base_amount # None
              THEN incoming.mode
              ELSE existing_numeric.mode
    ELSE existing_numeric.mode

MergeRawSnapshot(existing_value, incoming_value) ==
    IF ~DictTruthy(existing_value) /\ DictTruthy(incoming_value)
    THEN incoming_value
    ELSE existing_value

MergeSnapshotData(existing, incoming) ==
    LET numeric == [f \in DOMAIN existing |->
                      IF f \in numeric_fields
                      THEN MergeNumeric(existing[f], incoming[f])
                      ELSE existing[f]]
    IN  [f \in DOMAIN existing |->
            CASE f \in numeric_fields -> numeric[f]
              [] f \in json_fields -> MergeNestedDict(existing[f], incoming[f])
              [] f \in text_fields -> MergeText(existing[f], incoming[f])
              [] f = "mode" -> MergeMode(numeric, incoming)
              [] f = "raw_snapshot" -> MergeRawSnapshot(existing[f], incoming[f])
              [] OTHER -> existing[f]]

\* mutant: a later snapshot contributes nothing
MergeKeepsExisting(existing, incoming) ==
    IF existing = None THEN incoming ELSE existing

merge_policy_snapshots(existing, incoming) ==
    IF existing = None THEN incoming ELSE MergeSnapshotData(existing, incoming)

----------------------------------------------------------------------------
(* backend/infrastructure/workspaces.py, backend/application/workspaces.py *)

\* WorkspaceState(ws_id, month): empty lists, no results
WorkspaceState == [facts |-> << >>, policy |-> << >>, results |-> << >>]

ensure_workspace(store, ws_id) ==
    IF ws_id \in DOMAIN store
    THEN store
    ELSE [w \in DOMAIN store \cup {ws_id} |->
            IF w = ws_id THEN WorkspaceState ELSE store[w]]

\* a list_facts that falls back to the facts of another workspace when the
\* workspace has none
ListFactsOfAnyWorkspace(store, ws_id) ==
    IF ws_id \in DOMAIN store /\ store[ws_id].facts # << >> THEN store[ws_id].facts
    ELSE IF \E w \in DOMAIN store : store[w].facts # << >>
         THEN store[CHOOSE w \in DOMAIN store : store[w].facts # << >>].facts
         ELSE << >>

repo_list_facts(store, ws_id) ==
    IF ws_id \in DOMAIN store THEN store[ws_id].facts ELSE << >>

repo_list_policy(store, ws_id) ==
    IF ws_id \in DOMAIN store THEN store[ws_id].policy ELSE << >>

\* an add_fact that puts the record in front of the list
AddFactInFront(store, ws_id, record) ==
    LET ensured == ensure_workspace(store, ws_id)
    IN  [ensured EXCEPT ![ws_id].facts = <<record>> \o @]

repo_add_fact(store, ws_id, record) ==
    LET ensured == ensure_workspace(store, ws_id)
    IN  [ensured EXCEPT ![ws_id].facts = Append(@, record)]

repo_add_policy(store, ws_id, record) ==
    LET ensured == ensure_workspace(store, ws_id)
    IN  [ensured EXCEPT ![ws_id].policy = Append(@, record)]

\* a save that appends the rows to those already stored for the period
SaveResultsExtend(store, ws_id, period, rows) ==
    LET ensured == ensure_workspace(store, ws_id)
        old == ensured[ws_id].results
    IN  [ensured EXCEPT ![ws_id].results =
            [p \in DOMAIN old \cup {period} |->
                IF p = period
                THEN (IF p \in DOMAIN old THEN old[p] ELSE << >>) \o rows
                ELSE old[p]]]

repo_save_results(store, ws_id, period, rows) ==
    LET ensured == ensure_workspace(store, ws_id)
        old == ensured[ws_id].results
    IN  [ensured EXCEPT ![ws_id].results =
            [p \in DOMAIN old \cup {period} |-> IF p = period THEN rows ELSE old[p]]]

repo_list_results(store, ws_id, period) ==
    IF ws_id \in DOMAIN store /\ period \in DOMAIN store[ws_id].results
    THEN store[ws_id].results[period]
    ELSE << >>

\* the key of WorkspaceService.list_policy's aggregation
PolicyKey(snapshot) == <<normalize(snapshot.employee_name_norm), snapshot.period_month>>

\* the loop of list_policy: aggregated is an insertion-ordered dict, kept here
\* as the sequence of its values (a merged snapshot keeps its first row's key)
RECURSIVE AggregatePolicy(_, _)
AggregatePolicy(rows, aggregated) ==
    IF rows = << >> THEN aggregated
    ELSE LET snapshot == Head(rows)
             hit == {i \in 1..Len(aggregated) : PolicyKey(aggregated[i]) = PolicyKey(snapshot)}
         IN  IF hit = {}
             THEN AggregatePolicy(Tail(rows),
                                  Append(aggregated, merge_policy_snapshots(None, snapshot)))
             ELSE LET i == CHOOSE i \in hit : TRUE
                  IN  AggregatePolicy(Tail(rows),
                        [aggregated EXCEPT ![i] = merge_policy_snapshots(@, snapshot)])

list_policy(store, ws_id) == AggregatePolicy(repo_list_policy(store, ws_id), << >>)

get_fact_records_for_period(store, ws_id, period) ==
    LET InPeriod(row) == row.period_month = period
    IN  SelectSeq(repo_list_facts(store, ws_id), InPeriod)

get_policy_records_for_period(store, ws_id, period) ==
    LET InPeriod(row) == row.period_month = period
    IN  SelectSeq(list_policy(store, ws_id), InPeriod)

----------------------------------------------------------------------------
(* backend/core/rules_v1.py *)

DefaultThreshold == 5000

\* rules_v1's own copy of the snapshot merge
RulesMergePolicySnapshots(existing, incoming) ==
    IF existing = None THEN incoming ELSE MergeSnapshotData(existing, incoming)

RECURSIVE SumMetric(_, _)
SumMetric(records, code) ==
    IF records = << >> THEN Zero
    ELSE LET rest == SumMetric(Tail(records), code)
         IN  IF Head(records).metric_code = code
             THEN DAdd(Head(records).metric_value, rest)
             ELSE rest

aggregate_facts(records) ==
    [hour_std       |-> SumMetric(records, "HOUR_STD"),
     hour_ot_wd     |-> SumMetric(records, "HOUR_OT_WD"),
     hour_ot_we     |-> SumMetric(records, "HOUR_OT_WE"),
     hour_total     |-> SumMetric(records, "HOUR_TOTAL"),
     hour_confirmed |-> SumMetric(records, "HOUR_CONFIRMED"),
     base_amount    |-> SumMetric(records, "AMOUNT_BASE"),
     allowances     |-> SumMetric(records, "AMOUNT_ALLOW"),
     deductions     |-> SumMetric(records, "AMOUNT_DEDUCT")]

\* mutant: the precedence of HOUR_TOTAL and HOUR_CONFIRMED swapped
select_hours_total_first(agg) ==
    OrElse(agg.hour_total, OrElse(agg.hour_confirmed, agg.hour_std))

select_hours(agg) ==
    OrElse(agg.hour_confirmed, OrElse(agg.hour_total, agg.hour_std))

\* TAX_TABLE.get("default_threshold", 5000)
Threshold(table) ==
    IF table.default_threshold = None THEN Dec(DefaultThreshold, 0)
    ELSE table.default_threshold

\* mutant: the amount taxed in a bracket is not taken off what remains
RECURSIVE TaxLoopNoCarry(_, _, _)
TaxLoopNoCarry(brackets, remaining, tax) ==
    IF brackets = << >> THEN tax
    ELSE LET bracket == Head(brackets)
             bucket == IF bracket.limit # None THEN bracket.limit ELSE remaining
         IN  IF bracket.limit = None \/ DLe(remaining, bucket)
             THEN DAdd(tax, DMul(remaining, bracket.rate))
             ELSE TaxLoopNoCarry(Tail(brackets), remaining,
                                 DAdd(tax, DMul(bucket, bracket.rate)))

\* mutant: the last bracket's tax overwrites the running total ("=" for "+=")
RECURSIVE TaxLoopOverwrite(_, _, _)
TaxLoopOverwrite(brackets, remaining, tax) ==
    IF brackets = << >> THEN tax
    ELSE LET bracket == Head(brackets)
             bucket == IF bracket.limit # None THEN bracket.limit ELSE remaining
         IN  IF bracket.limit = None \/ DLe(remaining, bucket)
             THEN DMul(remaining, bracket.rate)
             ELSE TaxLoopOverwrite(Tail(brackets), DSub(remaining, bucket),
                                   DAdd(tax, DMul(bucket, bracket.rate)))

\* the loop over TAX_TABLE["brackets"]
RECURSIVE TaxLoop(_, _, _)
TaxLoop(brackets, remaining, tax) ==
    IF brackets = << >> THEN tax
    ELSE LET bracket == Head(brackets)
             limit == bracket.limit
             rate == bracket.rate
             bucket == IF limit # None THEN limit ELSE remaining
         IN  IF limit = None \/ DLe(remaining, bucket)
             THEN DAdd(tax, DMul(remaining, rate))
             ELSE LET tax2 == DAdd(tax, DMul(bucket, rate))
                      remaining2 == DSub(remaining, bucket)
                  IN  IF DLe(remaining2, Zero) THEN tax2
                      ELSE TaxLoop(Tail(brackets), remaining2, tax2)

apply_tax(gross, personal_ss, table) ==
    LET taxable == DSub(DSub(gross, personal_ss), Threshold(table))
    IN  IF DLe(taxable, Zero) THEN Zero
        ELSE TaxLoop(table.brackets, taxable, Zero)

\* Decimal(str(policy.social_security_json.get("employee", 0))) raises
\* decimal.InvalidOperation when the stored value is not a number
SsRatioRaises(policy) ==
    /\ policy.social_security_json # EmptyMap
    /\ "employee" \in DOMAIN policy.social_security_json
    /\ IsMap(policy.social_security_json["employee"])

SsRatio(policy) ==
    IF policy.social_security_json # EmptyMap
       /\ "employee" \in DOMAIN policy.social_security_json
    THEN policy.social_security_json["employee"].num
    ELSE Zero

\* the distinct source files of the records in order of first occurrence
RECURSIVE FirstOccurrences(_, _)
FirstOccurrences(records, seen) ==
    IF records = << >> THEN seen
    ELSE LET file == Head(records).source_file
         IN  FirstOccurrences(Tail(records),
                 IF \E i \in 1..Len(seen) : seen[i] = file THEN seen
                 ELSE Append(seen, file))

Reverse(seq) == [i \in 1..Len(seq) |-> seq[Len(seq) + 1 - i]]

HashSeeds == {0, 1}

\* an iteration order that changes from one call to the next
SourceFilesPerCall(records) ==
    IF response.op = "calc" /\ response.items # << >>
       /\ response.items[1].source_files = FirstOccurrences(records, << >>)
    THEN Reverse(FirstOccurrences(records, << >>))
    ELSE FirstOccurrences(records, << >>)

\* list({record.source_file for record in records}): the list follows the
\* iteration order of the set, a function of the string hashes (fixed by the
\* hash seed of the process) and of the insertion sequence
SourceFiles(records) ==
    IF hash_seed = 0 THEN FirstOccurrences(records, << >>)
    ELSE Reverse(FirstOccurrences(records, << >>))

BasePay(policy, agg) ==
    IF policy.mode = "SALARIED"
    THEN OrElse(policy.base_amount, agg.base_amount)
    ELSE DMul(select_hours(agg), OrElse(policy.base_rate, Zero))

OtPay(policy, agg) ==
    IF policy.mode = "SALARIED"
    THEN DAdd(DMul(agg.hour_ot_wd, OrElse(policy.ot_weekday_rate, Zero)),
              DMul(agg.hour_ot_we, OrElse(policy.ot_weekend_rate, Zero)))
    ELSE LET rate == OrElse(policy.base_rate, Zero)
             mult_wd == OrElse(policy.ot_weekday_multiplier, One)
             mult_we == OrElse(policy.ot_weekend_multiplier, One)
         IN  DAdd(DMul(DMul(agg.hour_ot_wd, rate), DSub(mult_wd, One)),
                  DMul(DMul(agg.hour_ot_we, rate), DSub(mult_we, One)))

\* the body of calculate_period's loop for one employee
PayrollResult(policy, records, period, table) ==
    LET agg == aggregate_facts(records)
        base == BasePay(policy, agg)
        ot == OtPay(policy, agg)
        allowances == agg.allowances
        deductions == agg.deductions
        gross == DAdd(DAdd(base, ot), allowances)
        personal_ss == Quantize(DMul(gross, SsRatio(policy)))
        tax_amount == Quantize(apply_tax(gross, personal_ss, table))
        net == DSub(DSub(DSub(gross, deductions), personal_ss), tax_amount)
    IN  [employee_name_norm       |-> records[1].employee_name_norm,
         period_month             |-> period,
         gross_pay                |-> Quantize(gross),
         net_pay                  |-> Quantize(net),
         base_pay                 |-> Quantize(base),
         ot_pay                   |-> Quantize(ot),
         allowances_sum           |-> Quantize(allowances),
         deductions_sum           |-> Quantize(deductions),
         social_security_personal |-> Quantize(personal_ss),
         tax                      |-> Quantize(tax_amount),
         snapshot_hash            |-> policy.snapshot_hash,
         source_files             |-> SourceFiles(records)]

\* the keys of facts_by_employee in insertion order
RECURSIVE EmployeeKeys(_, _)
EmployeeKeys(rows, seen) ==
    IF rows = << >> THEN seen
    ELSE LET key == normalize(Head(rows).employee_name_norm)
         IN  IF \E i \in 1..Len(seen) : seen[i] = key
             THEN EmployeeKeys(Tail(rows), seen)
             ELSE EmployeeKeys(Tail(rows), Append(seen, key))

\* policy_by_employee: an insertion-ordered dict kept as the sequence of its values
RECURSIVE PolicyByEmployee(_, _)
PolicyByEmployee(rows, merged) ==
    IF rows = << >> THEN merged
    ELSE LET snapshot == Head(rows)
             key == normalize(snapshot.employee_name_norm)
             hit == {i \in 1..Len(merged) : normalize(merged[i].employee_name_norm) = key}
         IN  IF hit = {}
             THEN PolicyByEmployee(Tail(rows),
                                   Append(merged, RulesMergePolicySnapshots(None, snapshot)))
             ELSE LET i == CHOOSE i \in hit : TRUE
                  IN  PolicyByEmployee(Tail(rows),
                        [merged EXCEPT ![i] = RulesMergePolicySnapshots(@, snapshot)])

\* policy_by_employee.get(key)
PolicyGet(merged, key) ==
    LET hit == {i \in 1..Len(merged) : normalize(merged[i].employee_name_norm) = key}
    IN  IF hit = {} THEN None ELSE merged[CHOOSE i \in hit : TRUE]

\* mutant: an employee without a policy ends the loop instead of being skipped
RECURSIVE CalcLoopBreak(_, _, _, _, _)
CalcLoopBreak(keys, facts, merged, period, table) ==
    IF keys = << >> THEN << >>
    ELSE LET key == Head(keys)
             InKey(row) == normalize(row.employee_name_norm) = key
             policy == PolicyGet(merged, key)
         IN  IF policy = None THEN << >>
             ELSE <<PayrollResult(policy, SelectSeq(facts, InKey), period, table)>>
                  \o CalcLoopBreak(Tail(keys), facts, merged, period, table)

\* the result loop over facts_by_employee.items()
RECURSIVE CalcLoop(_, _, _, _, _)
CalcLoop(keys, facts, merged, period, table) ==
    IF keys = << >> THEN << >>
    ELSE LET key == Head(keys)
             InKey(row) == normalize(row.employee_name_norm) = key
             policy == PolicyGet(merged, key)
             rest == CalcLoop(Tail(keys), facts, merged, period, table)
         IN  IF policy = None THEN rest
             ELSE <<PayrollResult(policy, SelectSeq(facts, InKey), period, table)>> \o rest

\* employees: the set of names of the request's "selected" ({} when absent)
calculate_period(store, ws_id, period, employees, table) ==
    LET fact_rows == get_fact_records_for_period(store, ws_id, period)
        policy_rows == get_policy_records_for_period(store, ws_id, period)
        selected == {normalize(name) : name \in employees}
        IsSelected(row) ==
            selected = {} \/ normalize(row.employee_name_norm) \in selected
        kept == SelectSeq(fact_rows, IsSelected)
        keys == EmployeeKeys(kept, << >>)
        merged == PolicyByEmployee(policy_rows, << >>)
        raised == \E i \in 1..Len(keys) :
                      /\ PolicyGet(merged, keys[i]) # None
                      /\ SsRatioRaises(PolicyGet(merged, keys[i]))
    IN  IF raised
        THEN [raised |-> TRUE, items |-> << >>]
        ELSE [raised |-> FALSE, items |-> CalcLoop(keys, kept, merged, period, table)]

----------------------------------------------------------------------------
(* Records and the values the operations are called with *)

WsIds == {"2025-01"}

Periods == {"2025-01", "2025-02"}

\* a FactRecord, as model_dump() stores it
Fact(name, period, code, value, file) ==
    [employee_name_norm |-> name,
     period_month       |-> period,
     metric_code        |-> code,
     metric_value       |-> value,
     unit               |-> IF code \in {"AMOUNT_BASE", "AMOUNT_ALLOW", "AMOUNT_DEDUCT"}
                            THEN "currency" ELSE "hour",
     source_file        |-> file]

\* a PolicySnapshot with every optional field at its default
Snapshot(name, period, mode) ==
    [employee_name_norm    |-> name,
     period_month          |-> period,
     mode                  |-> mode,
     base_amount           |-> None,
     base_rate             |-> None,
     ot_weekday_multiplier |-> None,
     ot_weekend_multiplier |-> None,
     ot_weekday_rate       |-> None,
     ot_weekend_rate       |-> None,
     allowances_json       |-> EmptyMap,
     deductions_json       |-> EmptyMap,
     tax_json              |-> EmptyMap,
     social_security_json  |-> EmptyMap,
     valid_from            |-> None,
     valid_to              |-> None,
     raw_snapshot          |-> None,
     source_file           |-> None,
     source_sheet          |-> None,
     source_row_range      |-> None,
     snapshot_hash         |-> None]

\* the bracket tables TAX_TABLE is drawn from: the table _load_tax_table
\* returns when the configuration file is missing, and three configured
\* tables (progressive with a final unbounded bracket; without the
\* default_threshold key; without an unbounded bracket)
Bracket(limit, rate) == [limit |-> limit, rate |-> rate]

TaxTables ==
    { [default_threshold |-> Dec(5000, 0), brackets |-> << >>],
      [default_threshold |-> Dec(5000, 0),
       brackets |-> <<Bracket(Dec(3000, 0), Dec(3, 2)),
                      Bracket(Dec(9000, 0), Dec(1, 1)),
                      Bracket(None, Dec(2, 1))>>],
      [default_threshold |-> None,
       brackets |-> <<Bracket(Dec(3000, 0), Dec(3, 2)),
                      Bracket(None, Dec(1, 1))>>],
      [default_threshold |-> Dec(5000, 0),
       brackets |-> <<Bracket(Dec(3000, 0), Dec(3, 2)),
                      Bracket(Dec(9000, 0), Dec(1, 1))>>] }

----------------------------------------------------------------------------
(* The process before any upload: StateStore.__init__, PipelineWorker.__init__ *)

Requests == {1, 2}

IdleCall == [pc |-> "idle"]

PipelineIdle ==
    /\ state_store = << >>
    /\ job_counter = 0
    /\ lock = 0
    /\ calls = [r \in Requests |-> IdleCall]

----------------------------------------------------------------------------
(* Operations *)

NumFacts(ws_id) == Len(repo_list_facts(workspaces, ws_id))

NumPolicies(ws_id) == Len(repo_list_policy(workspaces, ws_id))

\* WorkspaceService.add_fact
AddFact(ws_id, record) ==
    /\ workspaces' = repo_add_fact(workspaces, ws_id, record)
    /\ response' = [op |-> "add"]
    /\ UNCHANGED <<TAX_TABLE, hash_seed, pipeline_vars>>

\* WorkspaceService.add_policy
AddPolicy(ws_id, record) ==
    /\ workspaces' = repo_add_policy(workspaces, ws_id, record)
    /\ response' = [op |-> "add"]
    /\ UNCHANGED <<TAX_TABLE, hash_seed, pipeline_vars>>

\* WorkspaceService.list_policy
ListPolicy(ws_id) ==
    /\ response' = [op |-> "list_policy", ws_id |-> ws_id,
                    items |-> list_policy(workspaces, ws_id)]
    /\ UNCHANGED <<workspaces, TAX_TABLE, hash_seed, pipeline_vars>>

\* routes/calc.py trigger_calculation: an exception of calculate_period leaves
\* the results as they were
TriggerCalculation(ws_id, period, employees) ==
    LET result == calculate_period(workspaces, ws_id, period, employees, TAX_TABLE)
    IN  /\ response' = [op |-> "calc", ws_id |-> ws_id, period |-> period,
                        selected |-> employees,
                        raised |-> result.raised, items |-> result.items]
        /\ workspaces' = IF result.raised THEN workspaces
                         ELSE repo_save_results(workspaces, ws_id, period, result.items)
        /\ UNCHANGED <<TAX_TABLE, hash_seed, pipeline_vars>>

\* lines 197-200 of calculate_period on a given gross and employee ratio
TaxOnGross(gross, ss_ratio, table) ==
    LET personal_ss == Quantize(DMul(gross, ss_ratio))
    IN  [gross |-> gross, ss_ratio |-> ss_ratio, personal_ss |-> personal_ss,
         apply_tax |-> apply_tax(gross, personal_ss, table),
         tax_amount |-> Quantize(apply_tax(gross, personal_ss, table))]

ComputeTax(gross, ss_ratio) ==
    /\ response' = [op |-> "tax"] @@ TaxOnGross(gross, ss_ratio, TAX_TABLE)
    /\ UNCHANGED <<workspaces, TAX_TABLE, hash_seed, pipeline_vars>>

----------------------------------------------------------------------------
(* backend/core/state.py: the store the pipeline worker writes to *)

\* WorkspaceState(ws_id, month) of core/state.py
StoreState == [jobs |-> << >>, facts |-> << >>, policy |-> << >>, results |-> << >>]

state_ensure_workspace(store, ws_id) ==
    IF ws_id \in DOMAIN store
    THEN store
    ELSE [w \in DOMAIN store \cup {ws_id} |->
            IF w = ws_id THEN StoreState ELSE store[w]]

\* f"job-{counter:05d}"
JobId(counter) == <<"job-", counter>>

JobRecord(job_id, filename) ==
    [job_id |-> job_id, filename |-> filename, status |-> "queued", error |-> None]

register_upload(store, ws_id, job_id, filename) ==
    LET ensured == state_ensure_workspace(store, ws_id)
    IN  [ensured EXCEPT ![ws_id].jobs = Append(@, JobRecord(job_id, filename))]

\* a status update that reaches every job of the workspace
UpdateEveryJob(store, ws_id, job_id, status, error) ==
    LET ensured == state_ensure_workspace(store, ws_id)
    IN  [ensured EXCEPT ![ws_id].jobs =
            [k \in 1..Len(@) |-> [@[k] EXCEPT !.status = status, !.error = error]]]

\* a status update that, on failure, also removes the records the job stored
UpdateStatusRollingBack(store, ws_id, job_id, status, error) ==
    LET ensured == state_ensure_workspace(store, ws_id)
        kept(records) == SelectSeq(records, LAMBDA record : record.ingest_job_id # job_id)
    IN  [ensured EXCEPT
            ![ws_id].jobs = [k \in 1..Len(@) |->
                                IF @[k].job_id = job_id
                                THEN [@[k] EXCEPT !.status = status, !.error = error]
                                ELSE @[k]],
            ![ws_id].facts = IF status = "failed" THEN kept(@) ELSE @,
            ![ws_id].policy = IF status = "failed" THEN kept(@) ELSE @]

\* the loop of update_job_status: the first job with the id, then break
update_job_status(store, ws_id, job_id, status, error) ==
    LET ensured == state_ensure_workspace(store, ws_id)
        jobs == ensured[ws_id].jobs
        matches == {k \in 1..Len(jobs) : jobs[k].job_id = job_id}
    IN  IF matches = {} THEN ensured
        ELSE LET first == CHOOSE k \in matches : \A j \in matches : k <= j
             IN  [ensured EXCEPT ![ws_id].jobs[first] =
                     [@ EXCEPT !.status = status, !.error = error]]

state_add_fact(store, ws_id, record) ==
    LET ensured == state_ensure_workspace(store, ws_id)
    IN  [ensured EXCEPT ![ws_id].facts = Append(@, record)]

state_add_policy(store, ws_id, record) ==
    LET ensured == state_ensure_workspace(store, ws_id)
    IN  [ensured EXCEPT ![ws_id].policy = Append(@, record)]

state_list_facts(store, ws_id) ==
    IF ws_id \in DOMAIN store THEN store[ws_id].facts ELSE << >>

state_list_policy(store, ws_id) ==
    IF ws_id \in DOMAIN store THEN store[ws_id].policy ELSE << >>

state_list_jobs(store, ws_id) ==
    IF ws_id \in DOMAIN store THEN store[ws_id].jobs ELSE << >>

----------------------------------------------------------------------------
(* backend/extractors/detect.py                                            *)
(*                                                                         *)
(* A header token is a sequence of pieces; a keyword is a sequence of      *)
(* pieces too, and `keyword in token` is the search for it as a contiguous *)
(* run.  The Chinese keywords are written in pinyin: jiben gongzi is       *)
(* 基本工资, of which jiben (基本) is a part.                              *)

LowerPiece(piece) ==
    CASE piece = "METRIC_CODE" -> "metric_code"
      [] piece = "MODE" -> "mode"
      [] OTHER -> piece

\* token.strip().lower()
StripLower(token) ==
    LET stripped == RStrip(LStrip(token))
    IN  [i \in 1..Len(stripped) |-> LowerPiece(stripped[i])]

\* keyword in token
Contains(token, keyword) ==
    \E i \in 0..(Len(token) - Len(keyword)) :
        SubSeq(token, i + 1, i + Len(keyword)) = keyword

KEYWORDS_TIMESHEET_PERSONAL ==
    << <<"riqi">>, <<"biaozhun", "gongshi">>, <<"jiaban", "gongshi">>, <<"zong", "gongshi">> >>

KEYWORDS_TIMESHEET_AGG ==
    << <<"gongzuori", "biaozhun", "gongshi">>, <<"gongzuori", "jiaban", "gongshi">>,
       <<"zhoumo">>, <<"queren", "gongshi">>, <<"dangyue", "gongshi">> >>

KEYWORDS_POLICY ==
    << <<"jiben", "gongzi">>, <<"dixin">>, <<"jiaban">>, <<"jintie">>, <<"koukuan">>,
       <<"shebao">>, <<"gongjijin">>, <<"geshui">> >>

KEYWORDS_ROSTER ==
    << <<"shenfenzheng">>, <<"shebao", "jishu">>, <<"geren", "bili">>, <<"ruzhi">>, <<"lizhi">> >>

POLICY_CORE == << <<"moshi">>, <<"mode">>, <<"jiben">>, <<"dixin">>, <<"shixin">> >>

\* the tokens kept by the comprehension: stripped, lowered, not empty
Lowered(tokens) ==
    SelectSeq([i \in 1..Len(tokens) |-> StripLower(tokens[i])],
              LAMBDA token : token # << >>)

\* any(option in token for token in lowered for option in options)
HasAny(lowered, options) ==
    \E i \in 1..Len(lowered), k \in 1..Len(options) : Contains(lowered[i], options[k])

\* sum(1 for keyword in KEYWORDS_ROSTER for token in lowered if keyword in token)
RosterHits(lowered) ==
    Cardinality({pair \in (1..Len(KEYWORDS_ROSTER)) \X (1..Len(lowered)) :
                    Contains(lowered[pair[2]], KEYWORDS_ROSTER[pair[1]])})

\* the keyword scoring of _detect_from_tokens, lines 79-102
KeywordSchema(lowered) ==
    LET personal_ratio == HasAny(lowered, << <<"geren", "bili">>, <<"geren", "jiaofei">>,
                                            <<"geren", "%">>, <<"geren", "jiaona">> >>)
        employer_ratio == HasAny(lowered, << <<"gongsi", "bili">>, <<"danwei", "bili">>,
                                            <<"gongsi", "jiaofei">>, <<"danwei", "jiaona">> >>)
        base_hint == HasAny(lowered, << <<"jishu">>, <<"xiaxian">>, <<"shangxian">> >>)
        lifecycle_hint == HasAny(lowered, << <<"ruzhi">>, <<"lizhi">> >>)
        id_hint == HasAny(lowered, << <<"shenfenzheng">> >>)
    IN  IF HasAny(lowered, KEYWORDS_POLICY) /\ HasAny(lowered, POLICY_CORE)
        THEN "policy_sheet"
        ELSE IF \/ RosterHits(lowered) >= 2
                \/ personal_ratio /\ (employer_ratio \/ base_hint \/ lifecycle_hint)
                \/ id_hint /\ (personal_ratio \/ employer_ratio \/ base_hint \/ lifecycle_hint)
        THEN "roster_sheet"
        ELSE IF HasAny(lowered, KEYWORDS_TIMESHEET_AGG) THEN "timesheet_aggregate"
        ELSE IF HasAny(lowered, KEYWORDS_TIMESHEET_PERSONAL) THEN "timesheet_personal"
        ELSE "None"

\* a detection that scores the keywords before it looks for the canonical columns
DetectKeywordsFirst(tokens) ==
    LET lowered == Lowered(tokens)
    IN  IF lowered = << >> THEN "None"
        ELSE IF KeywordSchema(lowered) # "None" THEN KeywordSchema(lowered)
        ELSE IF \E i \in 1..Len(lowered) : lowered[i] = <<"metric_code">> THEN "fact_table"
        ELSE IF /\ \E i \in 1..Len(lowered) : lowered[i] = <<"mode">>
                /\ \E i \in 1..Len(lowered) : lowered[i] = <<"employee_name_norm">>
        THEN "policy_table"
        ELSE "None"

detect_from_tokens(tokens) ==
    LET lowered == Lowered(tokens)
    IN  IF lowered = << >> THEN "None"
        ELSE IF \E i \in 1..Len(lowered) : lowered[i] = <<"metric_code">> THEN "fact_table"
        ELSE IF /\ \E i \in 1..Len(lowered) : lowered[i] = <<"mode">>
                /\ \E i \in 1..Len(lowered) : lowered[i] = <<"employee_name_norm">>
        THEN "policy_table"
        ELSE KeywordSchema(lowered)

----------------------------------------------------------------------------
(* backend/workers/pipeline.py, backend/routes/upload.py *)

\* an uploaded file: its name, its suffix, the columns of its table and the
\* rows of the table
UploadedFile(filename, suffix, columns, rows) ==
    [filename |-> filename, suffix |-> suffix, columns |-> columns, rows |-> rows]

FactRow(name, period, code, value) ==
    [employee_name |-> name, period_month |-> period,
     metric_code |-> code, metric_value |-> value]

PolicyRow(name, period, mode, base_amount, base_rate) ==
    [employee_name_norm |-> name, period_month |-> period, mode |-> mode,
     base_amount |-> base_amount, base_rate |-> base_rate]

\* the Literal of FactRecord.metric_code
MetricCodes ==
    {"HOUR_STD", "HOUR_OT_WD", "HOUR_OT_WE", "HOUR_TOTAL", "HOUR_CONFIRMED",
     "AMOUNT_BASE", "AMOUNT_ALLOW", "AMOUNT_DEDUCT", "AMOUNT_TAX",
     "DAYS_PRESENT", "DAYS_ABSENCE", "DAYS_LEAVE"}

\* metric_code.startswith("HOUR_")
HourCodes == {"HOUR_STD", "HOUR_OT_WD", "HOUR_OT_WE", "HOUR_TOTAL", "HOUR_CONFIRMED"}

FactColumns == {"employee_name", "period_month", "metric_code", "metric_value"}

PolicyColumns == {"employee_name_norm", "period_month", "mode"}

\* _normalise_period_month on the values the rows of this model carry: a
\* missing or blank value ("") gives the workspace month, a value of the form
\* YYYY-MM is returned as it is
normalise_period_month(value, fallback) ==
    IF value = "" THEN fallback ELSE value

\* the FactRecord _ingest_fact_rows builds from a row, as model_dump() stores
\* it: employee_name_norm is the row's own when it has one, metric_label is
\* the row's label or else the metric code, confidence defaults to 1
IngestedFact(ws_id, filename, job_id, row) ==
    LET norm == IF "employee_name_norm" \in DOMAIN row /\ row.employee_name_norm # << >>
                THEN row.employee_name_norm
                ELSE normalize(row.employee_name)
        label == IF "metric_label" \in DOMAIN row /\ row.metric_label # << >>
                 THEN row.metric_label
                 ELSE <<row.metric_code>>
        confidence == IF "confidence" \in DOMAIN row THEN row.confidence ELSE One
    IN  [ingest_job_id |-> job_id, metric_label |-> label, confidence |-> confidence] @@
        [Fact(norm, normalise_period_month(row.period_month, ws_id),
              row.metric_code, row.metric_value, filename)
           EXCEPT !.unit = IF row.metric_code \in HourCodes THEN "hour" ELSE "currency"]

\* the PolicySnapshot _ingest_policy_rows builds from a row
IngestedPolicy(ws_id, filename, job_id, row) ==
    [ingest_job_id |-> job_id] @@
    [Snapshot(row.employee_name_norm,
              normalise_period_month(row.period_month, ws_id),
              row.mode)
       EXCEPT !.base_amount = row.base_amount,
              !.base_rate = row.base_rate,
              !.source_file = Text(filename)]

\* the record of _record_unparsed
UnparsedFact(ws_id, filename, job_id) ==
    [ingest_job_id |-> job_id, metric_label |-> <<"unparsed">>, confidence |-> Zero] @@
    [Fact(<<"uncategorized">>, ws_id, "AMOUNT_ALLOW", Zero, filename)
       EXCEPT !.unit = "currency"]

----------------------------------------------------------------------------
(* backend/extractors/timesheet_aggregate.py, policy_sheet.py,             *)
(* heuristic_excel.py and the spreadsheet branch of _process_file          *)
(*                                                                         *)
(* A spreadsheet is one sheet whose first row is the header.  name_column  *)
(* is the label of its column of names (<< >> when the sheet has none),    *)
(* labels are the labels of its other columns, and a row holds the name    *)
(* and one cell per label: None for an empty cell, a decimal, or a text.   *)
(* Labels are sequences of pieces as in detect.py: queren gongshi heji is  *)
(* 确认工时合计.                                                            *)

UploadedSheet(filename, name_column, labels, rows) ==
    [filename |-> filename, suffix |-> ".xlsx", columns |-> {}, rows |-> rows,
     name_column |-> name_column, labels |-> labels]

SheetRow(employee, cells) == [employee |-> employee, cells |-> cells]

SheetSuffixes == {".xlsx", ".xls", ".xlsm"}

\* the header row of the sheet
SheetHeader(file) ==
    (IF file.name_column = << >> THEN << >> ELSE <<file.name_column>>) \o file.labels

\* detect_excel: an empty frame has no schema, otherwise the header decides
detect_excel(file) ==
    IF file.rows = << >> THEN "unknown"
    ELSE LET schema == detect_from_tokens(SheetHeader(file))
         IN  IF schema = "None" THEN "unknown" ELSE schema

\* _safe_decimal of the extractors: an empty cell and a text that is no number
\* give None
SafeDecimal(cell) == IF cell = None \/ "str" \in DOMAIN cell THEN None ELSE cell

RECURSIVE Flatten(_)
Flatten(seqs) == IF seqs = << >> THEN << >> ELSE Head(seqs) \o Flatten(Tail(seqs))

NAME_KEYWORDS == << <<"xingming">>, <<"yuangong">>, <<"name">> >>

\* the rows named 合计, 汇总, 总计 are totals, no employees
TotalNames == { <<"heji">>, <<"huizong">>, <<"zongji">> }

\* _find_column of the template parsers: keyword by keyword, the first column
\* that contains it; 0 when there is none
FindColumn(columns, keywords) ==
    LET hits(k) == {c \in 1..Len(columns) : Contains(columns[c], keywords[k])}
        found == {k \in 1..Len(keywords) : hits(k) # {}}
    IN  IF found = {} THEN 0
        ELSE LET k == CHOOSE x \in found : \A y \in found : x <= y
             IN  CHOOSE c \in hits(k) : \A d \in hits(k) : c <= d

\* _find_column of heuristic_excel: column by column, the first one whose
\* lowered label contains any keyword
FindColumnByColumn(columns, keywords) ==
    LET hits == {c \in 1..Len(columns) :
                    \E k \in 1..Len(keywords) : Contains(StripLower(columns[c]), keywords[k])}
    IN  IF hits = {} THEN 0 ELSE CHOOSE c \in hits : \A d \in hits : c <= d

\* str(row.get(name_column) or "").strip()
Employee(row) == RStrip(LStrip(row.employee))

\* the rows a parser reads: those with a name that is no total
EmployeeRows(file) ==
    SelectSeq(file.rows,
              LAMBDA row : Employee(row) # << >> /\ Employee(row) \notin TotalNames)

HasNameColumn(file) == FindColumn(SheetHeader(file), NAME_KEYWORDS) # 0

\* a fact as an extractor returns it
ExtractedFact(employee, ws_id, code, value, label, confidence) ==
    [employee_name |-> employee, employee_name_norm |-> normalize(employee),
     period_month |-> ws_id, metric_code |-> code, metric_value |-> value,
     metric_label |-> label, confidence |-> confidence]

\* a policy snapshot as an extractor returns it; a key the extractor does not
\* set is None here
ExtractedPolicy(employee, ws_id, mode, base_amount, base_rate) ==
    [employee_name_norm |-> normalize(employee), period_month |-> ws_id, mode |-> mode,
     base_amount |-> base_amount, base_rate |-> base_rate]

METRIC_COLUMNS ==
    << [metric |-> "HOUR_STD",
        keywords |-> << <<"gongzuori", "biaozhun", "gongshi">>, <<"biaozhun", "gongshi">> >>],
       [metric |-> "HOUR_OT_WD",
        keywords |-> << <<"gongzuori", "jiaban", "gongshi">>, <<"pingri", "jiaban">> >>],
       [metric |-> "HOUR_OT_WE",
        keywords |-> << <<"zhoumo", "jiejiari", "daka", "gongshi">>, <<"zhoumo", "jiaban">>,
                        <<"jiejiari", "jiaban">> >>],
       [metric |-> "HOUR_TOTAL",
        keywords |-> << <<"dangyue", "gongshi">>,
                        <<"dangyue", "gongshi", "(", "yi", "gongshi", "jiahe", ")">>,
                        <<"zong", "gongshi">> >>],
       [metric |-> "HOUR_CONFIRMED",
        keywords |-> << <<"queren", "gongshi">> >>] >>

\* timesheet_aggregate.parse: per employee row one fact for every metric that
\* has a column and a number in it
AggregateFacts(file, ws_id) ==
    IF ~HasNameColumn(file) THEN << >>
    ELSE LET rows == EmployeeRows(file)
             column(m) == FindColumn(file.labels, METRIC_COLUMNS[m].keywords)
             metrics == SelectSeq([m \in 1..Len(METRIC_COLUMNS) |-> m],
                                  LAMBDA m : column(m) # 0)
             of_row(row) ==
                 LET read == SelectSeq(metrics,
                                 LAMBDA m : SafeDecimal(row.cells[column(m)]) # None)
                 IN  [i \in 1..Len(read) |->
                        ExtractedFact(Employee(row), ws_id, METRIC_COLUMNS[read[i]].metric,
                                      SafeDecimal(row.cells[column(read[i])]),
                                      file.labels[column(read[i])], Dec(9, 1))]
         IN  Flatten([i \in 1..Len(rows) |-> of_row(rows[i])])

MODE_KEYWORDS == << <<"moshi">>, <<"jixin", "fangshi">>, <<"mode">> >>

BASE_COLUMNS ==
    << <<"jiben", "gongzi">>, <<"dixin">>, <<"gangwei", "gongzi">>, <<"xinji">>,
       <<"guding", "gongzi">> >>

BASE_RATE_KEYWORDS == << <<"shixin">>, <<"hourly">>, <<"jizhun", "shixin">> >>

\* .upper() on the mode texts of this model
Upper(text) ==
    CASE text = "hourly" -> "HOURLY"
      [] text = "salaried" -> "SALARIED"
      [] text = "daily" -> "DAILY"
      [] OTHER -> text

\* str(row.get(mode_column) or "SALARIED").strip().upper(): an empty cell is
\* NaN, which is true and prints as nan; a number prints as its digits
ModeText(file, row, mode_column) ==
    IF mode_column = 0 THEN "SALARIED"
    ELSE LET cell == row.cells[mode_column]
         IN  IF cell = None THEN "NAN"
             ELSE IF "str" \in DOMAIN cell THEN Upper(cell.str)
             ELSE "0"

CellDecimal(row, column) == IF column = 0 THEN None ELSE SafeDecimal(row.cells[column])

\* policy_sheet.parse: the mode is SALARIED unless the cell says HOURLY, or
\* unless there is a rate and no base amount
PolicySheetPolicies(file, ws_id) ==
    IF FindColumnByColumn(SheetHeader(file), << <<"xingming">>, <<"yuangong">>, <<"employee">> >>) = 0
    THEN << >>
    ELSE LET rows == EmployeeRows(file)
             lowered == [c \in 1..Len(file.labels) |-> StripLower(file.labels[c])]
             mode_column == FindColumn(lowered, MODE_KEYWORDS)
             base_column == FindColumn(lowered, BASE_COLUMNS)
             rate_column == FindColumn(lowered, BASE_RATE_KEYWORDS)
             of_row(row) ==
                 LET text == ModeText(file, row, mode_column)
                     mode == IF text \in {"SALARIED", "HOURLY"} THEN text ELSE "SALARIED"
                     base_value == CellDecimal(row, base_column)
                     rate_value == CellDecimal(row, rate_column)
                 IN  IF mode = "SALARIED" /\ base_value # None
                     THEN ExtractedPolicy(Employee(row), ws_id, "SALARIED", base_value, None)
                     ELSE IF mode = "HOURLY" \/ rate_value # None
                     THEN ExtractedPolicy(Employee(row), ws_id, "HOURLY", None, rate_value)
                     ELSE ExtractedPolicy(Employee(row), ws_id, "SALARIED", None, None)
         IN  [i \in 1..Len(rows) |-> of_row(rows[i])]

FACT_KEYWORDS ==
    << [metric |-> "HOUR_STD",
        keywords |-> << <<"biaozhun", "gongshi">>, <<"zhengchang", "gongshi">>,
                        <<"pingri", "gongshi">> >>],
       [metric |-> "HOUR_OT_WD",
        keywords |-> << <<"gongzuori", "jiaban">>, <<"pingri", "jiaban">>,
                        <<"pingshi", "jiaban">>, <<"putong", "jiaban">> >>],
       [metric |-> "HOUR_OT_WE",
        keywords |-> << <<"zhoumo", "jiaban">>, <<"jiejiari", "jiaban">>,
                        <<"xiuxiri", "jiaban">> >>],
       [metric |-> "HOUR_TOTAL",
        keywords |-> << <<"zong", "gongshi">>, <<"dangyue", "gongshi">>,
                        <<"gongshi", "heji">> >>],
       [metric |-> "HOUR_CONFIRMED",
        keywords |-> << <<"queren", "gongshi">>, <<"heding", "gongshi">>,
                        <<"queren", "heji">> >>],
       [metric |-> "AMOUNT_BASE",
        keywords |-> << <<"jiben", "gongzi">>, <<"dixin">>, <<"yuexin">>,
                        <<"gangwei", "gongzi">> >>],
       [metric |-> "AMOUNT_ALLOW",
        keywords |-> << <<"jintie">>, <<"butie">>, <<"buzhu">> >>],
       [metric |-> "AMOUNT_DEDUCT",
        keywords |-> << <<"koukuan">>, <<"fakuan">>, <<"queqin", "koujian">> >>] >>

BlockedTokens == << <<"feilv">>, <<"beilv">>, <<"bili">>, <<"%">> >>

\* _match_metric: no metric for a rate, multiplier or ratio column, otherwise
\* the first metric of FACT_KEYWORDS with a keyword in the label
match_metric(column) ==
    LET lowered == StripLower(column)
        blocked == \E k \in 1..Len(BlockedTokens) : Contains(lowered, BlockedTokens[k])
        found == {m \in 1..Len(FACT_KEYWORDS) :
                     \E k \in 1..Len(FACT_KEYWORDS[m].keywords) :
                         Contains(lowered, FACT_KEYWORDS[m].keywords[k])}
    IN  IF blocked \/ found = {} THEN "None"
        ELSE FACT_KEYWORDS[CHOOSE m \in found : \A n \in found : m <= n].metric

HeuristicNameColumn(file) == FindColumnByColumn(SheetHeader(file), NAME_KEYWORDS) # 0

\* heuristic_excel.parse, the facts: per employee row one fact for every
\* column that matches a metric and holds a number
HeuristicFacts(file, ws_id) ==
    IF file.rows = << >> \/ ~HeuristicNameColumn(file) THEN << >>
    ELSE LET rows == EmployeeRows(file)
             columns == SelectSeq([c \in 1..Len(file.labels) |-> c],
                                  LAMBDA c : match_metric(file.labels[c]) # "None")
             of_row(row) ==
                 LET read == SelectSeq(columns, LAMBDA c : SafeDecimal(row.cells[c]) # None)
                 IN  [i \in 1..Len(read) |->
                        ExtractedFact(Employee(row), ws_id, match_metric(file.labels[read[i]]),
                                      SafeDecimal(row.cells[read[i]]),
                                      file.labels[read[i]], Dec(6, 1))]
         IN  Flatten([i \in 1..Len(rows) |-> of_row(rows[i])])

\* heuristic_excel.parse, the policies: when the sheet has a mode, base amount
\* or rate column, one snapshot per employee row; the mode text is taken as
\* it is
HeuristicPolicies(file, ws_id) ==
    IF file.rows = << >> \/ ~HeuristicNameColumn(file) THEN << >>
    ELSE LET rows == EmployeeRows(file)
             mode_column == FindColumnByColumn(file.labels, MODE_KEYWORDS)
             base_amount_column == FindColumnByColumn(file.labels, FACT_KEYWORDS[6].keywords)
             base_rate_column == FindColumnByColumn(file.labels, BASE_RATE_KEYWORDS)
             has_policy_signals ==
                 mode_column # 0 \/ base_amount_column # 0 \/ base_rate_column # 0
             of_row(row) ==
                 LET mode == ModeText(file, row, mode_column)
                     amount == CellDecimal(row, base_amount_column)
                     base_amount == IF amount # None THEN amount
                                    ELSE CellDecimal(row, base_rate_column)
                 IN  IF mode = "HOURLY"
                     THEN ExtractedPolicy(Employee(row), ws_id, mode, None,
                                          CellDecimal(row, base_rate_column))
                     ELSE ExtractedPolicy(Employee(row), ws_id, mode, base_amount, None)
         IN  IF has_policy_signals THEN [i \in 1..Len(rows) |-> of_row(rows[i])] ELSE << >>

\* the key of a fact in fact_signatures
Signature(item) == <<item.employee_name_norm, item.metric_code, item.metric_label>>

\* a filter that lets every heuristic fact through
KeepEveryHeuristicFact(heuristic, template) == heuristic

\* heuristic_facts: the heuristic facts whose key no template fact has
NotAlreadyCaptured(heuristic, template) ==
    SelectSeq(heuristic,
              LAMBDA item : \A k \in 1..Len(template) : Signature(item) # Signature(template[k]))

\* pd.DataFrame(records): a key that some record has and this one lacks is NaN
\* in this one's row, and _ingest_policy_rows reads NaN as the decimal 0
FrameRows(records) ==
    LET value(k, key) ==
            IF records[k][key] # None THEN records[k][key]
            ELSE IF \E j \in 1..Len(records) : records[j][key] # None THEN Zero
            ELSE None
    IN  [k \in 1..Len(records) |->
            [records[k] EXCEPT !.base_amount = value(k, "base_amount"),
                               !.base_rate = value(k, "base_rate")]]

FactItems(records) == [k \in 1..Len(records) |-> [kind |-> "fact", row |-> records[k]]]

PolicyItems(records) ==
    [k \in 1..Len(records) |-> [kind |-> "policy", row |-> FrameRows(records)[k]]]

\* a last step that records the placeholder after every spreadsheet
AlwaysPlaceholder(items) == Append(items, [kind |-> "unparsed"])

\* if not handled_fact and not handled_policy: _record_unparsed
OrPlaceholder(items) == IF items = << >> THEN << [kind |-> "unparsed"] >> ELSE items

\* what _process_file does with a spreadsheet, in its order: the facts or the
\* policies of the detected template, the heuristic facts that are left, the
\* heuristic policies when the template gave none, and the placeholder when
\* nothing was handled.  Sheets detected as timesheet_personal or roster_sheet
\* are outside this model.
SheetPlan(file, ws_id) ==
    LET schema == detect_excel(file)
        plan(template_facts, template_policies, heuristic) ==
            LET heuristic_facts == NotAlreadyCaptured(heuristic.facts, template_facts)
                heuristic_policies == IF template_policies = << >>
                                      THEN heuristic.policies ELSE << >>
                items == FactItems(template_facts) \o PolicyItems(template_policies)
                             \o FactItems(heuristic_facts) \o PolicyItems(heuristic_policies)
            IN  OrPlaceholder(items)
    IN  CHOOSE items \in
            { plan(template_facts, template_policies, heuristic) :
                template_facts \in {IF schema = "timesheet_aggregate"
                                    THEN AggregateFacts(file, ws_id) ELSE << >>},
                template_policies \in {IF schema = "policy_sheet"
                                       THEN PolicySheetPolicies(file, ws_id) ELSE << >>},
                heuristic \in {[facts |-> HeuristicFacts(file, ws_id),
                                policies |-> HeuristicPolicies(file, ws_id)]} } : TRUE

InFlight(r) == calls[r].pc # "idle"

CurrentFile(r) == calls[r].files[calls[r].index]

IsFactTable(file) == file.suffix = ".csv" /\ "metric_code" \in file.columns

IsPolicyTable(file) ==
    file.suffix = ".csv" /\ "metric_code" \notin file.columns /\ "mode" \in file.columns

\* the files of call r that have no job yet
Pending(r) ==
    CASE calls[r].pc = "idle" -> 0
      [] calls[r].pc = "enqueue" -> Len(calls[r].files) - calls[r].index + 1
      [] OTHER -> Len(calls[r].files) - calls[r].index

RECURSIVE SumPending(_)
SumPending(rs) ==
    IF rs = {} THEN 0
    ELSE LET r == CHOOSE x \in rs : TRUE IN Pending(r) + SumPending(rs \ {r})

\* upload_file is called with a batch of files
StartUpload(r, ws_id, files) ==
    /\ calls[r].pc = "idle"
    /\ files # << >>
    /\ calls' = [calls EXCEPT ![r] =
                    [pc |-> "enqueue", ws_id |-> ws_id, files |-> files, index |-> 1,
                     jobs |-> << >>, assigned |-> << >>, job_id |-> << >>, row |-> 1,
                     error |-> None]]
    /\ UNCHANGED <<workspaces, TAX_TABLE, response, hash_seed,
                   state_store, job_counter, lock>>

\* enqueue: the lock is taken, the job gets its id and is registered as queued
\* an enqueue that does not wait for the lock
LockIgnored(holder) == TRUE

\* async with self._lock: the lock is free
LockFree(holder) == holder = 0

AcquireAndRegister(r) ==
    /\ calls[r].pc = "enqueue"
    /\ LockFree(lock)
    /\ lock' = r
    /\ job_counter' = job_counter + 1
    /\ state_store' = register_upload(state_store, calls[r].ws_id,
                                      JobId(job_counter + 1), CurrentFile(r).filename)
    /\ calls' = [calls EXCEPT ![r].pc = "queued",
                              ![r].job_id = JobId(job_counter + 1),
                              ![r].assigned = Append(@, JobId(job_counter + 1)),
                              ![r].row = 1]
    /\ UNCHANGED <<workspaces, TAX_TABLE, response, hash_seed>>

\* enqueue: update_job_status(ws_id, job_id, "processing"), then the worker
\* thread is started on _process_file
StartProcessing(r) ==
    /\ calls[r].pc = "queued"
    /\ state_store' = update_job_status(state_store, calls[r].ws_id, calls[r].job_id,
                                        "processing", None)
    /\ calls' = [calls EXCEPT ![r].pc = "processing"]
    /\ UNCHANGED <<workspaces, TAX_TABLE, response, hash_seed, job_counter, lock>>

\* _ingest_csv / _ingest_fact_rows / _ingest_policy_rows raise ValueError: no
\* metric_code and no mode column, or a required column is missing
RejectTable(r) ==
    /\ calls[r].pc = "processing"
    /\ CurrentFile(r).suffix = ".csv"
    /\ \/ ~IsFactTable(CurrentFile(r)) /\ ~IsPolicyTable(CurrentFile(r))
       \/ IsFactTable(CurrentFile(r)) /\ ~(FactColumns \subseteq CurrentFile(r).columns)
       \/ IsPolicyTable(CurrentFile(r)) /\ ~(PolicyColumns \subseteq CurrentFile(r).columns)
    /\ calls' = [calls EXCEPT ![r].pc = "raised",
                              ![r].error =
                                  IF IsFactTable(CurrentFile(r)) THEN Text("fact columns missing")
                                  ELSE IF IsPolicyTable(CurrentFile(r))
                                       THEN Text("policy columns missing")
                                       ELSE Text("csv template not recognised")]
    /\ UNCHANGED <<workspaces, TAX_TABLE, response, hash_seed,
                   state_store, job_counter, lock>>

\* one iteration of the loop of _ingest_fact_rows: a row without employee name
\* is skipped, FactRecord(...) raises on a metric_code outside its Literal,
\* otherwise the record is added to the store
IngestFactRow(r) ==
    /\ calls[r].pc = "processing"
    /\ IsFactTable(CurrentFile(r))
    /\ FactColumns \subseteq CurrentFile(r).columns
    /\ calls[r].row <= Len(CurrentFile(r).rows)
    /\ LET row == CurrentFile(r).rows[calls[r].row]
       IN  IF row.employee_name = << >>
           THEN /\ calls' = [calls EXCEPT ![r].row = @ + 1]
                /\ UNCHANGED state_store
           ELSE IF row.metric_code \notin MetricCodes
           THEN /\ calls' = [calls EXCEPT ![r].pc = "raised",
                                          ![r].error = Text("validation error: metric_code")]
                /\ UNCHANGED state_store
           ELSE /\ state_store' = state_add_fact(state_store, calls[r].ws_id,
                                      IngestedFact(calls[r].ws_id, CurrentFile(r).filename,
                                                   calls[r].job_id, row))
                /\ calls' = [calls EXCEPT ![r].row = @ + 1]
    /\ UNCHANGED <<workspaces, TAX_TABLE, response, hash_seed, job_counter, lock>>

\* one iteration of the loop of _ingest_policy_rows: a row without
\* employee_name_norm is skipped, PolicySnapshot(...) raises on a mode outside
\* its Literal, otherwise the snapshot is added to the store
IngestPolicyRow(r) ==
    /\ calls[r].pc = "processing"
    /\ IsPolicyTable(CurrentFile(r))
    /\ PolicyColumns \subseteq CurrentFile(r).columns
    /\ calls[r].row <= Len(CurrentFile(r).rows)
    /\ LET row == CurrentFile(r).rows[calls[r].row]
       IN  IF row.employee_name_norm = << >>
           THEN /\ calls' = [calls EXCEPT ![r].row = @ + 1]
                /\ UNCHANGED state_store
           ELSE IF row.mode \notin {"SALARIED", "HOURLY"}
           THEN /\ calls' = [calls EXCEPT ![r].pc = "raised",
                                          ![r].error = Text("validation error: mode")]
                /\ UNCHANGED state_store
           ELSE /\ state_store' = state_add_policy(state_store, calls[r].ws_id,
                                      IngestedPolicy(calls[r].ws_id, CurrentFile(r).filename,
                                                     calls[r].job_id, row))
                /\ calls' = [calls EXCEPT ![r].row = @ + 1]
    /\ UNCHANGED <<workspaces, TAX_TABLE, response, hash_seed, job_counter, lock>>

\* _process_file on a file that is no csv, json or spreadsheet: the
\* placeholder fact is recorded and the function returns
RecordUnparsed(r) ==
    /\ calls[r].pc = "processing"
    /\ CurrentFile(r).suffix \notin {".csv", ".json", ".xlsx", ".xls", ".xlsm"}
    /\ state_store' = state_add_fact(state_store, calls[r].ws_id,
                          UnparsedFact(calls[r].ws_id, CurrentFile(r).filename,
                                       calls[r].job_id))
    /\ calls' = [calls EXCEPT ![r].pc = "returned"]
    /\ UNCHANGED <<workspaces, TAX_TABLE, response, hash_seed, job_counter, lock>>

\* _process_file on a spreadsheet, one record at a time: a fact or a policy
\* snapshot of the plan is added to the store, PolicySnapshot(...) raises on
\* a mode outside its Literal, and the placeholder is recorded when the plan
\* holds nothing else
IngestSheetItem(r) ==
    /\ calls[r].pc = "processing"
    /\ CurrentFile(r).suffix \in SheetSuffixes
    /\ calls[r].row <= Len(SheetPlan(CurrentFile(r), calls[r].ws_id))
    /\ \E item \in {SheetPlan(CurrentFile(r), calls[r].ws_id)[calls[r].row]} :
           IF item.kind = "unparsed"
           THEN /\ state_store' = state_add_fact(state_store, calls[r].ws_id,
                                      UnparsedFact(calls[r].ws_id, CurrentFile(r).filename,
                                                   calls[r].job_id))
                /\ calls' = [calls EXCEPT ![r].row = @ + 1]
           ELSE IF item.kind = "fact"
           THEN /\ state_store' = state_add_fact(state_store, calls[r].ws_id,
                                      IngestedFact(calls[r].ws_id, CurrentFile(r).filename,
                                                   calls[r].job_id, item.row))
                /\ calls' = [calls EXCEPT ![r].row = @ + 1]
           ELSE IF item.row.mode \notin {"SALARIED", "HOURLY"}
           THEN /\ calls' = [calls EXCEPT ![r].pc = "raised",
                                          ![r].error = Text("validation error: mode")]
                /\ UNCHANGED state_store
           ELSE /\ state_store' = state_add_policy(state_store, calls[r].ws_id,
                                      IngestedPolicy(calls[r].ws_id, CurrentFile(r).filename,
                                                     calls[r].job_id, item.row))
                /\ calls' = [calls EXCEPT ![r].row = @ + 1]
    /\ UNCHANGED <<workspaces, TAX_TABLE, response, hash_seed, job_counter, lock>>

\* the spreadsheet is worked off: _process_file returns
FinishSheet(r) ==
    /\ calls[r].pc = "processing"
    /\ CurrentFile(r).suffix \in SheetSuffixes
    /\ calls[r].row > Len(SheetPlan(CurrentFile(r), calls[r].ws_id))
    /\ calls' = [calls EXCEPT ![r].pc = "returned"]
    /\ UNCHANGED <<workspaces, TAX_TABLE, response, hash_seed,
                   state_store, job_counter, lock>>

\* a JSON upload: the keys of its object, and the rows under "records" and
\* under "policy" (<< >> when the key is missing)
UploadedJson(filename, keys, records, policy) ==
    [filename |-> filename, suffix |-> ".json", columns |-> {}, rows |-> << >>,
     keys |-> keys, records |-> records, policy |-> policy]

\* _ingest_json: the rows under "records" go through _ingest_fact_rows, then
\* the rows under "policy" through _ingest_policy_rows; an empty list has no
\* columns and the required-column check raises; a key that is missing is
\* passed over
JsonPlan(file) ==
    LET facts == IF "records" \notin file.keys THEN << >>
                 ELSE IF file.records = << >>
                 THEN << [kind |-> "raise", error |-> Text("fact columns missing")] >>
                 ELSE FactItems(file.records)
        policies == IF "policy" \notin file.keys THEN << >>
                    ELSE IF file.policy = << >>
                    THEN << [kind |-> "raise", error |-> Text("policy columns missing")] >>
                    ELSE [k \in 1..Len(file.policy) |->
                             [kind |-> "policy", row |-> file.policy[k]]]
    IN  facts \o policies

\* _process_file on a JSON file, one row at a time
IngestJsonItem(r) ==
    /\ calls[r].pc = "processing"
    /\ CurrentFile(r).suffix = ".json"
    /\ calls[r].row <= Len(JsonPlan(CurrentFile(r)))
    /\ \E item \in {JsonPlan(CurrentFile(r))[calls[r].row]} :
           IF item.kind = "raise"
           THEN /\ calls' = [calls EXCEPT ![r].pc = "raised", ![r].error = item.error]
                /\ UNCHANGED state_store
           ELSE IF item.kind = "fact" /\ item.row.employee_name = << >>
           THEN /\ calls' = [calls EXCEPT ![r].row = @ + 1]
                /\ UNCHANGED state_store
           ELSE IF item.kind = "fact" /\ item.row.metric_code \notin MetricCodes
           THEN /\ calls' = [calls EXCEPT ![r].pc = "raised",
                                          ![r].error = Text("validation error: metric_code")]
                /\ UNCHANGED state_store
           ELSE IF item.kind = "fact"
           THEN /\ state_store' = state_add_fact(state_store, calls[r].ws_id,
                                      IngestedFact(calls[r].ws_id, CurrentFile(r).filename,
                                                   calls[r].job_id, item.row))
                /\ calls' = [calls EXCEPT ![r].row = @ + 1]
           ELSE IF item.row.employee_name_norm = << >>
           THEN /\ calls' = [calls EXCEPT ![r].row = @ + 1]
                /\ UNCHANGED state_store
           ELSE IF item.row.mode \notin {"SALARIED", "HOURLY"}
           THEN /\ calls' = [calls EXCEPT ![r].pc = "raised",
                                          ![r].error = Text("validation error: mode")]
                /\ UNCHANGED state_store
           ELSE /\ state_store' = state_add_policy(state_store, calls[r].ws_id,
                                      IngestedPolicy(calls[r].ws_id, CurrentFile(r).filename,
                                                     calls[r].job_id, item.row))
                /\ calls' = [calls EXCEPT ![r].row = @ + 1]
    /\ UNCHANGED <<workspaces, TAX_TABLE, response, hash_seed, job_counter, lock>>

\* both keys are worked off: _ingest_json and _process_file return
FinishJson(r) ==
    /\ calls[r].pc = "processing"
    /\ CurrentFile(r).suffix = ".json"
    /\ calls[r].row > Len(JsonPlan(CurrentFile(r)))
    /\ calls' = [calls EXCEPT ![r].pc = "returned"]
    /\ UNCHANGED <<workspaces, TAX_TABLE, response, hash_seed,
                   state_store, job_counter, lock>>

\* the loop over the rows is exhausted: _process_file returns
FinishTable(r) ==
    /\ calls[r].pc = "processing"
    /\ \/ IsFactTable(CurrentFile(r)) /\ FactColumns \subseteq CurrentFile(r).columns
       \/ IsPolicyTable(CurrentFile(r)) /\ PolicyColumns \subseteq CurrentFile(r).columns
    /\ calls[r].row > Len(CurrentFile(r).rows)
    /\ calls' = [calls EXCEPT ![r].pc = "returned"]
    /\ UNCHANGED <<workspaces, TAX_TABLE, response, hash_seed,
                   state_store, job_counter, lock>>

\* enqueue, else branch: the job is completed, the lock released, the job
\* appended to the jobs of upload_file, which takes the next file or returns
CompleteJob(r) ==
    /\ calls[r].pc = "returned"
    /\ state_store' = update_job_status(state_store, calls[r].ws_id, calls[r].job_id,
                                        "completed", None)
    /\ lock' = 0
    /\ LET jobs == Append(calls[r].jobs,
                          [job_id |-> calls[r].job_id, status |-> "completed",
                           filename |-> CurrentFile(r).filename])
       IN  IF calls[r].index < Len(calls[r].files)
           THEN /\ calls' = [calls EXCEPT ![r].pc = "enqueue", ![r].index = @ + 1,
                                          ![r].jobs = jobs]
                /\ UNCHANGED response
           ELSE /\ calls' = [calls EXCEPT ![r] = IdleCall]
                /\ response' = [op |-> "upload", call |-> r, ws_id |-> calls[r].ws_id,
                                files |-> calls[r].files, assigned |-> calls[r].assigned,
                                raised |-> FALSE, items |-> jobs]
    /\ UNCHANGED <<workspaces, TAX_TABLE, hash_seed, job_counter>>

\* enqueue, except branch: the job is failed with the message, the lock
\* released and the exception raised again; upload_file has no handler for
\* it, so the call ends there
FailJob(r) ==
    /\ calls[r].pc = "raised"
    /\ state_store' = update_job_status(state_store, calls[r].ws_id, calls[r].job_id,
                                        "failed", calls[r].error)
    /\ lock' = 0
    /\ calls' = [calls EXCEPT ![r] = IdleCall]
    /\ response' = [op |-> "upload", call |-> r, ws_id |-> calls[r].ws_id,
                    files |-> calls[r].files, assigned |-> calls[r].assigned,
                    raised |-> TRUE, items |-> calls[r].jobs]
    /\ UNCHANGED <<workspaces, TAX_TABLE, hash_seed, job_counter>>

----------------------------------------------------------------------------
(* Spec: the repository and the calculation over a few employees *)

NameA == <<"a">>
NameASpaced == <<"A", " ">>
NameAWide == <<"U+FF21">>
NameB == <<"b">>

StoreFacts ==
    { Fact(NameA, "2025-01", "AMOUNT_BASE", Dec(3000, 0), "facts.csv"),
      Fact(NameASpaced, "2025-01", "AMOUNT_ALLOW", Dec(500, 0), "allow.csv"),
      Fact(NameB, "2025-01", "HOUR_TOTAL", Dec(160, 0), "facts.csv") }

StorePolicies ==
    { [Snapshot(NameA, "2025-01", "SALARIED") EXCEPT
          !.base_amount = Dec(10000, 0),
          !.social_security_json = [k \in {"employee"} |-> Num(Dec(1, 1))]],
      [Snapshot(NameAWide, "2025-01", "SALARIED") EXCEPT
          !.social_security_json = [k \in {"employee"} |-> Num(Dec(8, 2))]],
      [Snapshot(NameB, "2025-02", "HOURLY") EXCEPT !.base_rate = Dec(30, 0)] }

StoreTaxTables == {table \in TaxTables : Len(table.brackets) \in {0, 3}}

Init ==
    /\ workspaces = << >>
    /\ TAX_TABLE \in StoreTaxTables
    /\ response = [op |-> "init"]
    /\ hash_seed \in HashSeeds
    /\ PipelineIdle

Next ==
    \/ \E ws_id \in WsIds, record \in StoreFacts :
          NumFacts(ws_id) < MaxFacts /\ AddFact(ws_id, record)
    \/ \E ws_id \in WsIds, record \in StorePolicies :
          NumPolicies(ws_id) < MaxPolicies /\ AddPolicy(ws_id, record)
    \/ \E ws_id \in WsIds : ListPolicy(ws_id)
    \/ \E ws_id \in WsIds, period \in Periods :
          TriggerCalculation(ws_id, period, {})

Spec == Init /\ [][Next]_vars

----------------------------------------------------------------------------
(* SpecCalc: one employee with one stored policy snapshot; facts are added *)
(* and the period is calculated                                            *)

Ratio(d) == [k \in {"employee"} |-> Num(d)]

CalcFacts ==
    { Fact(NameA, "2025-01", "AMOUNT_BASE", Dec(3000, 0), "facts.csv"),
      Fact(NameA, "2025-01", "AMOUNT_ALLOW", Dec(100005, 3), "facts.csv"),
      Fact(NameA, "2025-01", "AMOUNT_DEDUCT", Dec(4, 3), "facts.csv"),
      Fact(NameA, "2025-01", "HOUR_CONFIRMED", Dec(150, 0), "confirmed.csv"),
      Fact(NameA, "2025-01", "HOUR_CONFIRMED", Dec(0, 0), "confirmed.csv"),
      Fact(NameA, "2025-01", "HOUR_TOTAL", Dec(1605, 1), "hours.csv"),
      Fact(NameA, "2025-01", "HOUR_STD", Dec(140, 0), "hours.csv"),
      Fact(NameA, "2025-01", "HOUR_OT_WD", Dec(10, 0), "hours.csv"),
      Fact(NameA, "2025-01", "HOUR_OT_WE", Dec(45, 1), "hours.csv") }

CalcPolicies ==
    { Snapshot(NameA, "2025-01", "SALARIED"),
      [Snapshot(NameA, "2025-01", "SALARIED") EXCEPT
          !.base_amount = Dec(0, 0),
          !.ot_weekday_rate = Dec(50, 0), !.ot_weekend_rate = Dec(80, 0),
          !.social_security_json = Ratio(Dec(1, 1))],
      [Snapshot(NameA, "2025-01", "SALARIED") EXCEPT
          !.base_amount = Dec(80005, 1), !.base_rate = Dec(30, 0),
          !.ot_weekday_multiplier = Dec(15, 1),
          !.ot_weekday_rate = Dec(50, 0),
          !.social_security_json = Ratio(Dec(105, 3))],
      [Snapshot(NameA, "2025-01", "SALARIED") EXCEPT
          !.base_amount = Dec(80005, 1), !.ot_weekend_rate = Dec(80, 0),
          !.social_security_json =
              [k \in {"base"} |-> [map |-> [j \in {"min"} |-> Num(Dec(5000, 0))]]]],
      Snapshot(NameA, "2025-01", "HOURLY"),
      [Snapshot(NameA, "2025-01", "HOURLY") EXCEPT
          !.base_rate = Dec(3491, 2), !.base_amount = Dec(9000, 0),
          !.ot_weekday_multiplier = Dec(15, 1), !.ot_weekend_multiplier = Dec(2, 0),
          !.ot_weekday_rate = Dec(50, 0),
          !.social_security_json = Ratio(Dec(1, 1))],
      [Snapshot(NameA, "2025-01", "HOURLY") EXCEPT
          !.base_rate = Dec(3491, 2), !.ot_weekend_multiplier = Dec(0, 0)],
      [Snapshot(NameA, "2025-01", "HOURLY") EXCEPT
          !.base_rate = Dec(20, 0), !.ot_weekday_multiplier = Dec(15, 1),
          !.social_security_json =
              [k \in {"employee"} |-> [map |-> [j \in {"ratio"} |-> Num(Dec(1, 1))]]]] }

CalcTaxTables == {table \in TaxTables : Len(table.brackets) = 3}

Selections == { {}, {NameASpaced} }

InitCalc ==
    /\ \E snapshot \in CalcPolicies :
          workspaces = repo_add_policy(<< >>, "2025-01", snapshot)
    /\ TAX_TABLE \in CalcTaxTables
    /\ response = [op |-> "add"]
    /\ hash_seed \in HashSeeds
    /\ PipelineIdle

NextCalc ==
    \/ \E record \in CalcFacts :
          NumFacts("2025-01") < MaxFacts /\ AddFact("2025-01", record)
    \/ \E employees \in Selections :
          TriggerCalculation("2025-01", "2025-01", employees)

SpecCalc == InitCalc /\ [][NextCalc]_vars

----------------------------------------------------------------------------
(* SpecTax: the tax step of the calculation on sampled gross amounts *)

GrossSamples ==
    { Dec(0, 0), Dec(499999, 2), Dec(5000, 0), Dec(500001, 2),
      Dec(5602047, 3), Dec(5602048, 3), Dec(5603149, 3), Dec(560315, 2),
      Dec(8000, 0), Dec(8000005, 3), Dec(90005, 1), Dec(14000, 0),
      Dec(1700001, 2), Dec(20000, 0) }

RatioSamples == { Dec(0, 0), Dec(1, 1), Dec(105, 3) }

InitTax ==
    /\ workspaces = << >>
    /\ TAX_TABLE \in TaxTables
    /\ response = [op |-> "init"]
    /\ hash_seed \in HashSeeds
    /\ PipelineIdle

NextTax == \E gross \in GrossSamples, ss_ratio \in RatioSamples : ComputeTax(gross, ss_ratio)

SpecTax == InitTax /\ [][NextTax]_vars

----------------------------------------------------------------------------
(* SpecMerge: chains of partial policy snapshots, merged when they are read *)

MergeSnapshots ==
    { [Snapshot(NameA, "2025-01", "SALARIED") EXCEPT
          !.social_security_json =
              [k \in {"employee", "base"} |->
                  IF k = "employee" THEN Num(Dec(8, 2))
                  ELSE [map |-> [j \in {"min", "max"} |->
                          IF j = "min" THEN Num(Dec(5000, 0)) ELSE Num(Dec(20000, 0))]]],
          !.raw_snapshot = [k \in {"row"} |-> Num(Dec(1, 0))],
          !.source_sheet = Text("Sheet1")],
      [Snapshot(NameA, "2025-01", "SALARIED") EXCEPT
          !.base_amount = Dec(10000, 0), !.ot_weekday_rate = Dec(50, 0),
          !.social_security_json = Ratio(Dec(0, 0)),
          !.snapshot_hash = Text("h2"), !.source_file = Text("policy.csv")],
      [Snapshot(NameA, "2025-01", "HOURLY") EXCEPT
          !.base_rate = Dec(30, 0),
          !.ot_weekday_multiplier = Dec(15, 1), !.ot_weekend_multiplier = Dec(2, 0),
          !.allowances_json = [k \in {"meal"} |-> Num(Dec(200, 0))],
          !.social_security_json =
              [k \in {"base"} |-> [map |-> [j \in {"min"} |-> Num(Dec(3000, 0))]]],
          !.valid_from = Text("")],
      [Snapshot(NameA, "2025-01", "HOURLY") EXCEPT
          !.allowances_json =
              [k \in {"meal"} |-> [map |-> [j \in {"day"} |-> Num(Dec(10, 0))]]],
          !.deductions_json = [k \in {"late"} |-> Num(Dec(5, 0))],
          !.social_security_json = [k \in {"base"} |-> Num(Dec(7, 0))]],
      [Snapshot(NameA, "2025-01", "SALARIED") EXCEPT
          !.base_amount = Dec(0, 0), !.base_rate = Dec(0, 0),
          !.ot_weekday_rate = Dec(0, 0), !.ot_weekend_rate = Dec(80, 0),
          !.ot_weekend_multiplier = Dec(3, 0),
          !.tax_json = [k \in {"rate"} |-> Num(Dec(3, 2))]],
      [Snapshot(NameASpaced, "2025-01", "SALARIED") EXCEPT
          !.base_amount = Dec(9000, 0),
          !.ot_weekday_multiplier = Dec(2, 0), !.ot_weekend_rate = Dec(60, 0),
          !.allowances_json =
              [k \in {"meal", "bus"} |->
                  IF k = "meal" THEN Num(Dec(300, 0)) ELSE Num(Dec(50, 0))],
          !.snapshot_hash = Text("h6")],
      [Snapshot(NameB, "2025-01", "HOURLY") EXCEPT !.base_rate = Dec(25, 0)],
      [Snapshot(NameA, "2025-01", "HOURLY") EXCEPT
          !.base_amount = Dec(7000, 0), !.base_rate = Dec(20, 0)],
      [Snapshot(NameA, "2025-01", "SALARIED") EXCEPT
          !.base_amount = Dec(12000, 0), !.base_rate = Dec(40, 0)] }

InitMerge ==
    /\ workspaces = << >>
    /\ TAX_TABLE \in CalcTaxTables
    /\ response = [op |-> "init"]
    /\ hash_seed \in HashSeeds
    /\ PipelineIdle

NextMerge ==
    \/ \E record \in MergeSnapshots :
          NumPolicies("2025-01") < MaxChain /\ AddPolicy("2025-01", record)
    \/ ListPolicy("2025-01")

SpecMerge == InitMerge /\ [][NextMerge]_vars

----------------------------------------------------------------------------
(* SpecRoster: a roster-only snapshot and a base-amount-only snapshot of   *)
(* one employee, stored in any order, with facts, and the calculation      *)

RosterRatio == Dec(8, 2)

RosterBaseAmount == Dec(10000, 0)

\* the snapshot roster_sheet.parse emits for one row
RosterOnly(name) ==
    [Snapshot(name, "2025-01", "SALARIED") EXCEPT
        !.social_security_json =
            [k \in {"employee", "employer", "base"} |->
                CASE k = "employee" -> Num(RosterRatio)
                  [] k = "employer" -> Num(Dec(1, 1))
                  [] OTHER -> [map |-> [j \in {"min", "max"} |->
                                 IF j = "min" THEN Num(Dec(5000, 0))
                                 ELSE Num(Dec(20000, 0))]]],
        !.raw_snapshot = [k \in {"row"} |-> Num(Dec(1, 0))],
        !.source_sheet = Text("Sheet1")]

BaseAmountOnly(name) ==
    [Snapshot(name, "2025-01", "SALARIED") EXCEPT
        !.base_amount = RosterBaseAmount,
        !.source_file = Text("policy.csv")]

RosterSnapshots == { RosterOnly(NameA), BaseAmountOnly(NameASpaced), RosterOnly(NameB) }

RosterFacts ==
    { Fact(NameA, "2025-01", "HOUR_TOTAL", Dec(160, 0), "facts.csv"),
      Fact(NameAWide, "2025-01", "AMOUNT_ALLOW", Dec(500, 0), "allow.csv"),
      Fact(NameB, "2025-01", "AMOUNT_BASE", Dec(3000, 0), "facts.csv") }

InitRoster ==
    /\ workspaces = << >>
    /\ TAX_TABLE \in CalcTaxTables
    /\ response = [op |-> "init"]
    /\ hash_seed \in HashSeeds
    /\ PipelineIdle

NextRoster ==
    \/ \E record \in RosterFacts :
          NumFacts("2025-01") < MaxFacts /\ AddFact("2025-01", record)
    \/ \E record \in RosterSnapshots :
          NumPolicies("2025-01") < MaxPolicies /\ AddPolicy("2025-01", record)
    \/ TriggerCalculation("2025-01", "2025-01", {})

SpecRoster == InitRoster /\ [][NextRoster]_vars

----------------------------------------------------------------------------
(* SpecResults: calculation runs over two periods and several selections   *)
(* of a workspace that holds facts and policies of two employees           *)

ResultsFacts ==
    << Fact(NameA, "2025-01", "AMOUNT_BASE", Dec(3000, 0), "facts.csv"),
       Fact(NameB, "2025-01", "HOUR_TOTAL", Dec(160, 0), "hours.csv"),
       Fact(NameA, "2025-02", "AMOUNT_ALLOW", Dec(500, 0), "allow.csv"),
       Fact(NameB, "2025-02", "HOUR_TOTAL", Dec(150, 0), "hours.csv") >>

ResultsPolicies ==
    << [Snapshot(NameA, "2025-01", "SALARIED") EXCEPT !.base_amount = Dec(10000, 0)],
       [Snapshot(NameB, "2025-01", "HOURLY") EXCEPT !.base_rate = Dec(30, 0)],
       [Snapshot(NameA, "2025-02", "SALARIED") EXCEPT !.base_amount = Dec(10000, 0)],
       [Snapshot(NameB, "2025-02", "HOURLY") EXCEPT !.base_rate = Dec(30, 0)] >>

ResultsExtraFacts ==
    { Fact(NameASpaced, "2025-01", "AMOUNT_ALLOW", Dec(200, 0), "allow.csv"),
      Fact(NameB, "2025-02", "AMOUNT_DEDUCT", Dec(50, 0), "deduct.csv") }

ResultsSelections == { {}, {NameASpaced}, {NameB} }

InitResults ==
    /\ workspaces = [w \in {"2025-01"} |->
                        [WorkspaceState EXCEPT !.facts = ResultsFacts,
                                               !.policy = ResultsPolicies]]
    /\ TAX_TABLE \in CalcTaxTables
    /\ response = [op |-> "add"]
    /\ hash_seed \in HashSeeds
    /\ PipelineIdle

NextResults ==
    \/ \E record \in ResultsExtraFacts :
          /\ NumFacts("2025-01") < Len(ResultsFacts) + MaxFacts
          /\ AddFact("2025-01", record)
    \/ \E period \in Periods, employees \in ResultsSelections :
          TriggerCalculation("2025-01", period, employees)

SpecResults == InitResults /\ [][NextResults]_vars

----------------------------------------------------------------------------
(* SpecPipeline: concurrent batch uploads into one workspace, and the      *)
(* calculation                                                             *)

MaxJobs == 3

FactsCsv ==
    UploadedFile("facts.csv", ".csv", FactColumns,
        << FactRow(NameASpaced, "2025-01", "AMOUNT_ALLOW", Dec(500, 0)),
           FactRow(NameA, "", "HOUR_TOTAL", Dec(160, 0)) >>)

RangeCsv ==
    UploadedFile("range.csv", ".csv", FactColumns,
        << FactRow(NameA, "2025-01", "HOUR_TOTAL", Dec(745, 0)),
           FactRow(<< >>, "2025-01", "AMOUNT_ALLOW", Dec(1, 0)),
           FactRow(NameA, "2025-01", "AMOUNT_ALLOW", Dec(-1, 0)) >>)

BrokenCsv ==
    UploadedFile("broken.csv", ".csv", FactColumns,
        << FactRow(NameB, "2025-01", "AMOUNT_BASE", Dec(100, 0)),
           FactRow(NameB, "2025-01", "BONUS", Dec(5, 0)) >>)

PolicyCsv ==
    UploadedFile("policy.csv", ".csv", PolicyColumns \cup {"base_amount"},
        << PolicyRow(NameA, "2025-01", "SALARIED", Dec(10000, 0), None),
           PolicyRow(<< >>, "2025-01", "SALARIED", None, None) >>)

BadModeCsv ==
    UploadedFile("modes.csv", ".csv", PolicyColumns,
        << PolicyRow(NameB, "2025-01", "DAILY", None, None) >>)

NotesCsv == UploadedFile("notes.csv", ".csv", {"name", "amount"}, << >>)

ScanPdf == UploadedFile("scan.pdf", ".pdf", {}, << >>)

\* {"records": [...], "policy": [...]}
DataJson ==
    UploadedJson("data.json", {"records", "policy"},
        << FactRow(NameB, "2025-01", "HOUR_TOTAL", Dec(150, 0)) >>,
        << PolicyRow(NameB, "", "HOURLY", None, Dec(40, 0)) >>)

\* {"records": []}
NoRowsJson == UploadedJson("norows.json", {"records"}, << >>, << >>)

\* {"items": [...]}: neither records nor policy
OtherJson == UploadedJson("other.json", {"items"}, << >>, << >>)

PipelineBatches ==
    { <<FactsCsv, PolicyCsv>>, <<BrokenCsv, FactsCsv>>, <<NotesCsv, PolicyCsv>>,
      <<RangeCsv>>, <<BadModeCsv>>, <<ScanPdf>>,
      <<DataJson>>, <<NoRowsJson>>, <<OtherJson>> }

InitPipeline ==
    /\ workspaces = << >>
    /\ TAX_TABLE \in CalcTaxTables
    /\ response = [op |-> "init"]
    /\ hash_seed = 0
    /\ PipelineIdle

NextPipeline ==
    \/ \E r \in Requests, files \in PipelineBatches :
          /\ job_counter + SumPending(Requests) + Len(files) <= MaxJobs
          /\ StartUpload(r, "2025-01", files)
    \/ \E r \in Requests : AcquireAndRegister(r)
    \/ \E r \in Requests : StartProcessing(r)
    \/ \E r \in Requests : RejectTable(r)
    \/ \E r \in Requests : IngestFactRow(r)
    \/ \E r \in Requests : IngestPolicyRow(r)
    \/ \E r \in Requests : RecordUnparsed(r)
    \/ \E r \in Requests : IngestJsonItem(r)
    \/ \E r \in Requests : FinishJson(r)
    \/ \E r \in Requests : FinishTable(r)
    \/ \E r \in Requests : CompleteJob(r)
    \/ \E r \in Requests : FailJob(r)
    \/ /\ \A r \in Requests : ~InFlight(r)
       /\ TriggerCalculation("2025-01", "2025-01", {})

SpecPipeline == InitPipeline /\ [][NextPipeline]_vars

----------------------------------------------------------------------------
(* SpecSheets: concurrent uploads of spreadsheets into one workspace *)

NameColumn == <<"xingming">>

\* 工作日标准工时, 确认工时合计 and 津贴: a summary timesheet with a totals row
HoursXlsx ==
    UploadedSheet("hours.xlsx", NameColumn,
        << <<"gongzuori", "biaozhun", "gongshi">>, <<"queren", "gongshi", "heji">>,
           <<"jintie">> >>,
        << SheetRow(NameASpaced, << Dec(160, 0), Dec(168, 0), Dec(300, 0) >>),
           SheetRow(<<"heji">>, << Dec(160, 0), Dec(168, 0), Dec(300, 0) >>) >>)

\* 基本工资 and 模式: a policy sheet
PayXlsx ==
    UploadedSheet("pay.xlsx", NameColumn,
        << <<"jiben", "gongzi">>, <<"moshi">> >>,
        << SheetRow(NameA, << Dec(10000, 0), Text("salaried") >>) >>)

\* 计薪方式 and 时薪: no template, the mode of the second row is left empty
ModesXlsx ==
    UploadedSheet("modes.xlsx", NameColumn,
        << <<"jixin", "fangshi">>, <<"shixin">> >>,
        << SheetRow(NameB, << Text("hourly"), Dec(50, 0) >>),
           SheetRow(NameA, << None, Dec(60, 0) >>) >>)

\* 计薪方式 alone, with a mode that is no pay mode
DailyXlsx ==
    UploadedSheet("daily.xlsx", NameColumn,
        << <<"jixin", "fangshi">> >>,
        << SheetRow(NameB, << Text("daily") >>) >>)

\* 备注: a sheet no extractor reads anything from
RemarksXlsx ==
    UploadedSheet("remarks.xlsx", NameColumn,
        << <<"beizhu">> >>,
        << SheetRow(NameA, << Text("ok") >>) >>)

SheetBatches ==
    { <<HoursXlsx>>, <<PayXlsx, RemarksXlsx>>, <<ModesXlsx>>, <<DailyXlsx, HoursXlsx>> }

NextSheets ==
    \/ \E r \in Requests, files \in SheetBatches :
          /\ job_counter + SumPending(Requests) + Len(files) <= MaxJobs
          /\ StartUpload(r, "2025-01", files)
    \/ \E r \in Requests : AcquireAndRegister(r)
    \/ \E r \in Requests : StartProcessing(r)
    \/ \E r \in Requests : IngestSheetItem(r)
    \/ \E r \in Requests : FinishSheet(r)
    \/ \E r \in Requests : CompleteJob(r)
    \/ \E r \in Requests : FailJob(r)

SpecSheets == InitPipeline /\ [][NextSheets]_vars

----------------------------------------------------------------------------
(* Properties of calculate_period over the repository (Spec) *)

\* what a "calc" response was computed from: the facts and the stored
\* snapshots of the period (a calculation changes neither)
FactsInPeriod(ws_id, period) == get_fact_records_for_period(workspaces, ws_id, period)

StoredPolicyInPeriod(ws_id, period) ==
    LET InPeriod(row) == row.period_month = period
    IN  SelectSeq(repo_list_policy(workspaces, ws_id), InPeriod)

FactKeys(ws_id, period) ==
    LET rows == FactsInPeriod(ws_id, period)
    IN  {normalize(rows[i].employee_name_norm) : i \in 1..Len(rows)}

PolicyKeys(ws_id, period) ==
    LET rows == StoredPolicyInPeriod(ws_id, period)
    IN  {normalize(rows[i].employee_name_norm) : i \in 1..Len(rows)}

RowKeys(items) == {normalize(items[i].employee_name_norm) : i \in 1..Len(items)}

FactsOf(ws_id, period, key) ==
    LET InKey(row) == normalize(row.employee_name_norm) = key
    IN  SelectSeq(FactsInPeriod(ws_id, period), InKey)

MergedPolicyOf(ws_id, period, key) ==
    PolicyGet(PolicyByEmployee(get_policy_records_for_period(workspaces, ws_id, period),
                               << >>), key)

\* the store without the facts of one employee
WithoutFactsOf(ws_id, key) ==
    LET NotKey(row) == normalize(row.employee_name_norm) # key
    IN  [workspaces EXCEPT ![ws_id].facts = SelectSeq(@, NotKey)]

\* C7: a calculation of a period returns exactly one row for each employee
\* that has, in that period, at least one fact and at least one stored policy
\* snapshot under the same normalized name; an employee with facts and no
\* policy gives no row and no error, and the rows returned are those of the
\* same calculation on the store without that employee's facts.
C7_RowIffFactAndPolicy ==
    response.op = "calc" =>
        LET ws_id == response.ws_id
            period == response.period
            keys == FactKeys(ws_id, period) \cap PolicyKeys(ws_id, period)
        IN  /\ ~response.raised
            /\ RowKeys(response.items) = keys
            /\ Len(response.items) = Cardinality(keys)
            /\ \A key \in FactKeys(ws_id, period) \ PolicyKeys(ws_id, period) :
                  calculate_period(WithoutFactsOf(ws_id, key), ws_id, period,
                                   response.selected, TAX_TABLE).items = response.items

\* C7 witness: a calculation returned a row while another employee of the
\* period had facts and no policy snapshot
C7_Witness ==
    /\ response.op = "calc"
    /\ response.items # << >>
    /\ FactKeys(response.ws_id, response.period)
           \ PolicyKeys(response.ws_id, response.period) # {}

UnderSpecified(policy) ==
    \/ policy.mode = "SALARIED" /\ policy.base_amount = None
    \/ policy.mode = "HOURLY" /\ policy.base_rate = None

\* C8: no row of a calculation belongs to an employee whose merged policy is
\* SALARIED with a null base_amount or HOURLY with a null base_rate.
C8_NoRowFromUnderSpecifiedPolicy ==
    response.op = "calc" =>
        \A i \in 1..Len(response.items) :
            ~UnderSpecified(MergedPolicyOf(response.ws_id, response.period,
                                           normalize(response.items[i].employee_name_norm)))

----------------------------------------------------------------------------
(* Properties of the pay formulas (SpecCalc) *)

\* the rows of a calculation that returned, each with its employee's merged
\* policy and aggregated facts
CalcReturned == response.op = "calc" /\ ~response.raised

RowPolicy(row) ==
    MergedPolicyOf(response.ws_id, response.period, normalize(row.employee_name_norm))

RowFacts(row) ==
    FactsOf(response.ws_id, response.period, normalize(row.employee_name_norm))

HasFact(row, code) ==
    \E i \in 1..Len(RowFacts(row)) : RowFacts(row)[i].metric_code = code

\* C1: for an employee whose merged policy is SALARIED, base pay is the
\* policy's base_amount whenever base_amount is non-null, and the sum of the
\* employee's AMOUNT_BASE facts of the period only when it is null.
C1_SalariedBasePay ==
    CalcReturned =>
        \A i \in 1..Len(response.items) :
            LET row == response.items[i]
                policy == RowPolicy(row)
            IN  policy.mode = "SALARIED" =>
                    row.base_pay =
                        Quantize(IF policy.base_amount # None
                                 THEN policy.base_amount
                                 ELSE SumMetric(RowFacts(row), "AMOUNT_BASE"))

\* the hours figure: HOUR_CONFIRMED if nonzero, else HOUR_TOTAL if nonzero,
\* else HOUR_STD
HoursFigure(records) ==
    IF SumMetric(records, "HOUR_CONFIRMED") # Zero THEN SumMetric(records, "HOUR_CONFIRMED")
    ELSE IF SumMetric(records, "HOUR_TOTAL") # Zero THEN SumMetric(records, "HOUR_TOTAL")
    ELSE SumMetric(records, "HOUR_STD")

\* C2: for an employee whose merged policy is HOURLY (with a base_rate), base
\* pay is H x base_rate, H being the sum of the HOUR_CONFIRMED facts if that
\* sum is nonzero, else the sum of the HOUR_TOTAL facts if nonzero, else the
\* sum of the HOUR_STD facts.
C2_HourlyBasePay ==
    CalcReturned =>
        \A i \in 1..Len(response.items) :
            LET row == response.items[i]
                policy == RowPolicy(row)
            IN  policy.mode = "HOURLY" /\ policy.base_rate # None =>
                    row.base_pay = Quantize(DMul(HoursFigure(RowFacts(row)), policy.base_rate))

\* C2 witness: an HOURLY row whose HOUR_CONFIRMED facts sum to zero, paid on
\* the HOUR_TOTAL hours
C2_Witness ==
    /\ CalcReturned
    /\ \E i \in 1..Len(response.items) :
          LET row == response.items[i]
          IN  /\ RowPolicy(row).mode = "HOURLY"
              /\ RowPolicy(row).base_rate # None
              /\ HasFact(row, "HOUR_CONFIRMED")
              /\ SumMetric(RowFacts(row), "HOUR_CONFIRMED") = Zero
              /\ SumMetric(RowFacts(row), "HOUR_TOTAL") # Zero
              /\ row.base_pay # Zero

AbsentAsZero(x) == IF x = None THEN Zero ELSE x

\* the overtime formulas, the multiplier rule left open
OvertimeFormula(policy, records, Multiplier(_)) ==
    IF policy.mode = "SALARIED"
    THEN DAdd(DMul(SumMetric(records, "HOUR_OT_WD"), AbsentAsZero(policy.ot_weekday_rate)),
              DMul(SumMetric(records, "HOUR_OT_WE"), AbsentAsZero(policy.ot_weekend_rate)))
    ELSE DAdd(DMul(DMul(SumMetric(records, "HOUR_OT_WD"), AbsentAsZero(policy.base_rate)),
                   DSub(Multiplier(policy.ot_weekday_multiplier), One)),
              DMul(DMul(SumMetric(records, "HOUR_OT_WE"), AbsentAsZero(policy.base_rate)),
                   DSub(Multiplier(policy.ot_weekend_multiplier), One)))

OneWhenAbsent(m) == IF m = None THEN One ELSE m

OneWhenAbsentOrZero(m) == IF m = None \/ m = Zero THEN One ELSE m

\* C3: overtime pay is, in SALARIED mode, weekday overtime hours x
\* ot_weekday_rate + weekend overtime hours x ot_weekend_rate, and in HOURLY
\* mode weekday hours x base_rate x (weekday multiplier - 1) + weekend hours x
\* base_rate x (weekend multiplier - 1), a multiplier counting as 1 exactly
\* when it is absent.
C3_Overtime ==
    CalcReturned =>
        \A i \in 1..Len(response.items) :
            LET row == response.items[i]
            IN  row.ot_pay = Quantize(OvertimeFormula(RowPolicy(row), RowFacts(row), OneWhenAbsent))

\* what the code computes instead: the same formulas, a multiplier counting
\* as 1 when it is absent or zero
OvertimeAsComputed ==
    CalcReturned =>
        \A i \in 1..Len(response.items) :
            LET row == response.items[i]
            IN  row.ot_pay =
                    Quantize(OvertimeFormula(RowPolicy(row), RowFacts(row), OneWhenAbsentOrZero))

\* C6: in every row the reported fields satisfy
\* net_pay = gross_pay - deductions_sum - social_security_personal - tax.
C6_NetIdentity ==
    CalcReturned =>
        \A i \in 1..Len(response.items) :
            LET row == response.items[i]
            IN  row.net_pay =
                    DSub(DSub(DSub(row.gross_pay, row.deductions_sum),
                              row.social_security_personal), row.tax)

----------------------------------------------------------------------------
(* Properties of the tax step (SpecTax) *)

EndsUnbounded(brackets) == brackets # << >> /\ brackets[Len(brackets)].limit = None

DMin(a, b) == IF DLe(a, b) THEN a ELSE b

\* the sum of the limits of the brackets before the i-th
RECURSIVE LimitsBefore(_, _)
LimitsBefore(brackets, i) ==
    IF i = 1 THEN Zero
    ELSE DAdd(LimitsBefore(brackets, i - 1), brackets[i - 1].limit)

\* the portion of the taxable base the i-th bracket absorbs: what the earlier
\* brackets left over, a bounded bracket taking at most its limit
Absorbed(brackets, i, taxable) ==
    LET before == LimitsBefore(brackets, i)
        left == IF DLe(taxable, before) THEN Zero ELSE DSub(taxable, before)
    IN  IF brackets[i].limit = None THEN left ELSE DMin(brackets[i].limit, left)

RECURSIVE SumAbsorbed(_, _, _)
SumAbsorbed(brackets, n, taxable) ==
    IF n = 0 THEN Zero
    ELSE DAdd(SumAbsorbed(brackets, n - 1, taxable), Absorbed(brackets, n, taxable))

RECURSIVE SumAbsorbedTimesRate(_, _, _)
SumAbsorbedTimesRate(brackets, n, taxable) ==
    IF n = 0 THEN Zero
    ELSE DAdd(SumAbsorbedTimesRate(brackets, n - 1, taxable),
              DMul(Absorbed(brackets, n, taxable), brackets[n].rate))

TaxableBase(gross, personal_ss, table) == DSub(DSub(gross, personal_ss), Threshold(table))

\* C4: with a table that ends with an unbounded bracket and a taxable base
\* T = gross - personal_ss - threshold > 0, the tax is the sum over the
\* brackets of (portion of T absorbed) x rate, a bounded bracket absorbing at
\* most its limit and the portions adding up to T; with T <= 0 the tax is 0.
C4_MarginalBrackets ==
    response.op = "tax" /\ EndsUnbounded(TAX_TABLE.brackets) =>
        LET brackets == TAX_TABLE.brackets
            taxable == TaxableBase(response.gross, response.personal_ss, TAX_TABLE)
        IN  IF DLt(Zero, taxable)
            THEN /\ response.apply_tax = SumAbsorbedTimesRate(brackets, Len(brackets), taxable)
                 /\ SumAbsorbed(brackets, Len(brackets), taxable) = taxable
                 /\ \A i \in 1..Len(brackets) :
                       brackets[i].limit # None =>
                           DLe(Absorbed(brackets, i, taxable), brackets[i].limit)
                 /\ response.tax_amount = Quantize(response.apply_tax)
            ELSE response.apply_tax = Zero /\ response.tax_amount = Zero

\* C4 witness: a tax computed on a base that fills every bounded bracket and
\* reaches the unbounded one
C4_Witness ==
    /\ response.op = "tax"
    /\ EndsUnbounded(TAX_TABLE.brackets)
    /\ LET brackets == TAX_TABLE.brackets
           taxable == TaxableBase(response.gross, response.personal_ss, TAX_TABLE)
       IN  /\ Len(brackets) > 2
           /\ DLt(LimitsBefore(brackets, Len(brackets)), taxable)
           /\ DLt(Zero, response.apply_tax)

\* C5: for a fixed bracket table and one employee policy (one social security
\* ratio), the tax is non-decreasing in gross, and it is 0 whenever
\* gross <= threshold + personal_ss.
C5_TaxMonotoneInGross ==
    response.op = "tax" =>
        /\ \A gross \in GrossSamples :
              DLe(response.gross, gross) =>
                  DLe(response.tax_amount,
                      TaxOnGross(gross, response.ss_ratio, TAX_TABLE).tax_amount)
        /\ DLe(response.gross, DAdd(Threshold(TAX_TABLE), response.personal_ss)) =>
              response.tax_amount = Zero

\* C5 (amended): for a fixed bracket table and a fixed personal social
\* security amount, the tax is non-decreasing in gross, before and after it is
\* rounded to cents, and it is 0 whenever gross <= threshold + personal_ss.
C5_TaxMonotoneAtFixedPersonalSs ==
    response.op = "tax" =>
        /\ \A gross \in GrossSamples :
              DLe(response.gross, gross) =>
                  /\ DLe(response.apply_tax,
                         apply_tax(gross, response.personal_ss, TAX_TABLE))
                  /\ DLe(response.tax_amount,
                         Quantize(apply_tax(gross, response.personal_ss, TAX_TABLE)))
        /\ DLe(response.gross, DAdd(Threshold(TAX_TABLE), response.personal_ss)) =>
              response.tax_amount = Zero

\* C5 witness: a positive tax, exceeded by the tax of a larger gross at the
\* same personal social security amount
C5_Witness ==
    /\ response.op = "tax"
    /\ DLt(Zero, response.tax_amount)
    /\ DLt(Zero, response.personal_ss)
    /\ \E gross \in GrossSamples :
          /\ DLt(response.gross, gross)
          /\ DLt(response.tax_amount,
                 Quantize(apply_tax(gross, response.personal_ss, TAX_TABLE)))

----------------------------------------------------------------------------
(* Properties of the snapshot merge (SpecMerge) *)

\* the stored snapshots of one employee and period, in arrival order
Chain(ws_id, key) ==
    LET InKey(row) == PolicyKey(row) = key
    IN  SelectSeq(repo_list_policy(workspaces, ws_id), InKey)

\* the value of the earliest snapshot of the chain in which the field is
\* non-null, null when there is none
EarliestNonNull(chain, field) ==
    LET filled == {i \in 1..Len(chain) : chain[i][field] # None}
    IN  IF filled = {} THEN None
        ELSE chain[CHOOSE i \in filled : \A j \in filled : i <= j][field]

RECURSIVE IsDeepMerge(_, _, _)
IsDeepMerge(merged, existing, incoming) ==
    /\ DOMAIN merged = DOMAIN existing \cup DOMAIN incoming
    /\ \A key \in DOMAIN merged :
          IF key \notin DOMAIN incoming THEN merged[key] = existing[key]
          ELSE IF key \notin DOMAIN existing THEN merged[key] = incoming[key]
          ELSE IF IsMap(existing[key]) /\ IsMap(incoming[key])
               THEN /\ IsMap(merged[key])
                    /\ IsDeepMerge(merged[key].map, existing[key].map, incoming[key].map)
               ELSE merged[key] = incoming[key]

\* the fold of the first k snapshots of a chain
RECURSIVE FoldChain(_, _)
FoldChain(chain, k) ==
    IF k = 1 THEN merge_policy_snapshots(None, chain[1])
    ELSE merge_policy_snapshots(FoldChain(chain, k - 1), chain[k])

\* C10: at every step of the fold that list_policy returns, each JSON map
\* field of merge(existing, incoming) is the deep merge of the two sides:
\* keys of one side are kept, maps under a common key are merged recursively,
\* and any other common key takes incoming's value.
C10_JsonDeepMerge ==
    response.op = "list_policy" =>
        \A i \in 1..Len(response.items) :
            LET chain == Chain(response.ws_id, PolicyKey(response.items[i]))
            IN  /\ \A field \in json_fields :
                      response.items[i][field] = FoldChain(chain, Len(chain))[field]
                /\ \A k \in 2..Len(chain) : \A field \in json_fields :
                      IsDeepMerge(FoldChain(chain, k)[field],
                                  FoldChain(chain, k - 1)[field], chain[k][field])

\* C10 witness: a listed snapshot whose social_security_json was merged from a
\* chain in which a later snapshot replaces the employee ratio and another
\* merges into the nested base map
C10_Witness ==
    /\ response.op = "list_policy"
    /\ \E i \in 1..Len(response.items) :
          LET chain == Chain(response.ws_id, PolicyKey(response.items[i]))
              item == response.items[i].social_security_json
          IN  /\ \E j, k \in 1..Len(chain) :
                    /\ j < k
                    /\ "employee" \in DOMAIN chain[j].social_security_json
                    /\ "employee" \in DOMAIN chain[k].social_security_json
                    /\ chain[j].social_security_json["employee"]
                           # chain[k].social_security_json["employee"]
                    /\ item["employee"] = chain[k].social_security_json["employee"]
              /\ \E j, k \in 1..Len(chain) :
                    /\ j < k
                    /\ "base" \in DOMAIN chain[j].social_security_json
                    /\ "base" \in DOMAIN chain[k].social_security_json
                    /\ IsMap(chain[j].social_security_json["base"])
                    /\ IsMap(chain[k].social_security_json["base"])
                    /\ IsMap(item["base"])
                    /\ DOMAIN item["base"].map # DOMAIN chain[k].social_security_json["base"].map

\* the steps of the fold behind a listed snapshot: existing, incoming, merged
FoldSteps(item) ==
    LET chain == Chain(response.ws_id, PolicyKey(item))
    IN  {[existing |-> FoldChain(chain, k - 1), incoming |-> chain[k],
          merged |-> FoldChain(chain, k)] : k \in 2..Len(chain)}

\* the condition under which the mode is to switch
LacksDefiningField(existing, incoming) ==
    \/ existing.mode = "SALARIED" /\ existing.base_amount = None
    \/ /\ existing.mode = "HOURLY"
       /\ existing.base_rate = None
       /\ incoming.base_amount # None

\* C11: when existing and incoming differ in mode, the merged snapshot has
\* incoming's mode exactly when existing is SALARIED without base_amount, or
\* HOURLY without base_rate while incoming supplies a base_amount; otherwise
\* it keeps existing's mode.
C11_ModeSwitch ==
    response.op = "list_policy" =>
        \A i \in 1..Len(response.items) : \A step \in FoldSteps(response.items[i]) :
            step.existing.mode # step.incoming.mode =>
                step.merged.mode =
                    IF LacksDefiningField(step.existing, step.incoming)
                    THEN step.incoming.mode
                    ELSE step.existing.mode

FullySpecified(snapshot) ==
    \/ snapshot.mode = "SALARIED" /\ snapshot.base_amount # None
    \/ snapshot.mode = "HOURLY" /\ snapshot.base_rate # None

DefiningField(snapshot) == IF snapshot.mode = "SALARIED" THEN "base_amount" ELSE "base_rate"

Groupings(item) ==
    LET chain == Chain(response.ws_id, PolicyKey(item))
    IN  {[left  |-> merge_policy_snapshots(
                        merge_policy_snapshots(FoldChain(chain, k - 2), chain[k - 1]),
                        chain[k]),
          right |-> merge_policy_snapshots(
                        FoldChain(chain, k - 2),
                        merge_policy_snapshots(chain[k - 1], chain[k])),
          listed |-> FoldChain(chain, k)] : k \in 3..Len(chain)}

\* C13: the merge is associative on three snapshots A, B, C of one employee
\* and period in arrival order: merge(merge(A, B), C) and
\* merge(A, merge(B, C)) are equal on every field.
C13_MergeAssociative ==
    response.op = "list_policy" =>
        \A i \in 1..Len(response.items) : \A g \in Groupings(response.items[i]) :
            g.left = g.right

\* the fields on which regrouping makes no difference
RegroupingFields ==
    numeric_fields \cup text_fields
        \cup {"raw_snapshot", "employee_name_norm", "period_month"}

\* what the code computes: the snapshot list_policy returns for a chain is the
\* left fold in arrival order, merge(merge(A, B), C), and the calculation's
\* fold over the listed snapshots returns it unchanged; grouping the chain as
\* merge(A, merge(B, C)) gives the same numeric, text and raw_snapshot fields.
LeftFoldAsComputed ==
    response.op = "list_policy" =>
        \A i \in 1..Len(response.items) :
            LET item == response.items[i]
                chain == Chain(response.ws_id, PolicyKey(item))
            IN  /\ item = FoldChain(chain, Len(chain))
                /\ PolicyGet(PolicyByEmployee(response.items, << >>),
                             normalize(item.employee_name_norm)) = item
                /\ \A g \in Groupings(item) :
                      /\ g.left = g.listed
                      /\ \A field \in RegroupingFields : g.left[field] = g.right[field]

----------------------------------------------------------------------------
(* Properties of the roster scenario (SpecRoster) *)

IsRosterOnly(snapshot) ==
    /\ snapshot.mode = "SALARIED"
    /\ \A field \in numeric_fields : snapshot[field] = None
    /\ "employee" \in DOMAIN snapshot.social_security_json
    /\ DLt(Zero, snapshot.social_security_json["employee"].num)

IsBaseAmountOnly(snapshot) ==
    /\ snapshot.mode = "SALARIED"
    /\ snapshot.base_amount # None
    /\ DLt(Zero, snapshot.base_amount)
    /\ \A field \in numeric_fields \ {"base_amount"} : snapshot[field] = None
    /\ \A field \in json_fields : snapshot[field] = EmptyMap

\* the stored snapshots of an employee in the calculated period are roster-only
\* and base-amount-only ones, at least one of each
RosterScenario(key) ==
    LET chain == Chain(response.ws_id, <<key, response.period>>)
    IN  /\ \A k \in 1..Len(chain) : IsRosterOnly(chain[k]) \/ IsBaseAmountOnly(chain[k])
        /\ \E k \in 1..Len(chain) : IsRosterOnly(chain[k])
        /\ \E k \in 1..Len(chain) : IsBaseAmountOnly(chain[k])

----------------------------------------------------------------------------
(* Determinism of the calculation (SpecCalc) *)

----------------------------------------------------------------------------
(* Stored results (SpecResults) *)

\* C17: after a calculation run for (W, p) is saved, list_results(W, p) is
\* exactly the rows of that run, whatever was stored for p before (rows of
\* employees absent from the new run are gone), and the rows stored for
\* every other period of W are unchanged.
C17_SaveReplaces ==
    [][ (response'.op = "calc" /\ ~response'.raised) =>
            /\ repo_list_results(workspaces', response'.ws_id, response'.period)
                   = response'.items
            /\ \A period \in Periods \ {response'.period} :
                   repo_list_results(workspaces', response'.ws_id, period)
                       = repo_list_results(workspaces, response'.ws_id, period) ]_vars

\* C17 witness: a run restricted by `selected` was saved for a period in which
\* another employee has facts and a policy, while the other period holds rows
\* of an earlier run
C17_Witness ==
    /\ response.op = "calc"
    /\ ~response.raised
    /\ response.selected # {}
    /\ Len(response.items) = 1
    /\ repo_list_results(workspaces, response.ws_id, response.period) = response.items
    /\ \E key \in FactKeys(response.ws_id, response.period)
                    \cap PolicyKeys(response.ws_id, response.period) :
          \A i \in 1..Len(response.items) :
              normalize(response.items[i].employee_name_norm) # key
    /\ \E period \in Periods \ {response.period} :
          Len(repo_list_results(workspaces, response.ws_id, period)) = 2

----------------------------------------------------------------------------
(* Properties of the upload pipeline (SpecPipeline) *)

\* validate_fact accepts the record
InRange(fact) ==
    /\ fact.unit = "hour" => DLe(Zero, fact.metric_value) /\ DLe(fact.metric_value, Dec(744, 0))
    /\ fact.unit = "currency" => DLe(Zero, fact.metric_value)

\* C15: no sequence of uploads leaves in a workspace store a fact with unit
\* hour and a value outside [0, 744], or a fact with unit currency and a
\* negative value.
C15_StoredFactsInRange ==
    \A ws_id \in WsIds :
        /\ \A k \in 1..Len(state_list_facts(state_store, ws_id)) :
               InRange(state_list_facts(state_store, ws_id)[k])
        /\ \A k \in 1..Len(repo_list_facts(workspaces, ws_id)) :
               InRange(repo_list_facts(workspaces, ws_id)[k])

Terminal(status) == status \in {"completed", "failed"}

\* the jobs that are inside enqueue: registered, and enqueue has neither
\* returned nor raised yet
JobsInEnqueue ==
    {calls[r].job_id : r \in {x \in Requests :
                                 calls[x].pc \in {"queued", "processing", "returned", "raised"}}}

JobStepAllowed(before, after) ==
    \/ after = before
    \/ /\ after.job_id = before.job_id
       /\ after.filename = before.filename
       /\ \/ before.status = "queued" /\ after.status = "processing"
          \/ before.status = "processing" /\ Terminal(after.status)

\* C18: every upload job is registered as queued, goes to processing and then
\* to exactly one of completed or failed; completed and failed are never
\* left; and a job for which enqueue has returned or raised is in a terminal
\* status.
C18_JobLifecycle ==
    /\ [][ \A ws_id \in WsIds :
             LET before == state_list_jobs(state_store, ws_id)
                 after == state_list_jobs(state_store', ws_id)
             IN  /\ Len(after) >= Len(before)
                 /\ \A k \in 1..Len(before) : JobStepAllowed(before[k], after[k])
                 /\ \A k \in (Len(before) + 1)..Len(after) : after[k].status = "queued" ]_vars
    /\ [](\A ws_id \in WsIds :
             \A k \in 1..Len(state_list_jobs(state_store, ws_id)) :
                 LET job == state_list_jobs(state_store, ws_id)[k]
                 IN  job.job_id \notin JobsInEnqueue => Terminal(job.status))

\* C18 witness: an upload call has ended with an exception, and the store
\* holds a completed job, a failed job with its message and a job in processing
C18_Witness ==
    /\ response.op = "upload"
    /\ response.raised
    /\ \E ws_id \in WsIds :
          LET jobs == state_list_jobs(state_store, ws_id)
          IN  /\ \E k \in 1..Len(jobs) : jobs[k].status = "completed"
              /\ \E k \in 1..Len(jobs) : jobs[k].status = "failed" /\ jobs[k].error # None
              /\ \E k \in 1..Len(jobs) : jobs[k].status = "processing"

\* the jobs of the workspace whose id is among the given ones
JobsOf(ws_id, job_ids) ==
    {k \in 1..Len(state_list_jobs(state_store, ws_id)) :
        \E i \in 1..Len(job_ids) : state_list_jobs(state_store, ws_id)[k].job_id = job_ids[i]}

\* C19: when a batch upload has ended, every file of the batch has got its own
\* job and that job is in a terminal status, whether or not the run of another
\* file of the batch failed.
C19_SiblingsUnaffected ==
    response.op = "upload" =>
        /\ Len(response.assigned) = Len(response.files)
        /\ \A i \in 1..Len(response.files) :
              \E k \in JobsOf(response.ws_id, <<response.assigned[i]>>) :
                  LET job == state_list_jobs(state_store, response.ws_id)[k]
                  IN  job.filename = response.files[i].filename /\ Terminal(job.status)

\* the part of C19 the code keeps: the files before the failing one have their
\* jobs, each in a terminal status
FilesBeforeFailureKeepJobs ==
    response.op = "upload" =>
        /\ Len(response.assigned) <= Len(response.files)
        /\ response.raised <=> Len(response.items) < Len(response.assigned)
        /\ \A i \in 1..Len(response.assigned) :
              \E k \in JobsOf(response.ws_id, <<response.assigned[i]>>) :
                  LET job == state_list_jobs(state_store, response.ws_id)[k]
                  IN  job.filename = response.files[i].filename /\ Terminal(job.status)

\* the records of the pipeline's store that a completed run stored
StoredByCompletedRun(ws_id, records) ==
    {k \in 1..Len(records) :
        \E j \in JobsOf(ws_id, <<records[k].ingest_job_id>>) :
            state_list_jobs(state_store, ws_id)[j].status = "completed"}

\* the ingested record as calculate_period would read it
WithoutJobId(record) == [f \in DOMAIN record \ {"ingest_job_id"} |-> record[f]]

\* C20: every fact and policy record stored by a completed pipeline run for a
\* workspace is among the records calculate reads for that workspace, and a
\* calculation issued after the upload of facts and a policy of an employee
\* returns a row for that employee.
C20_SinglePointOfTruth ==
    \A ws_id \in WsIds :
        LET facts == state_list_facts(state_store, ws_id)
            policy == state_list_policy(state_store, ws_id)
            read_facts == repo_list_facts(workspaces, ws_id)
            read_policy == repo_list_policy(workspaces, ws_id)
        IN  /\ \A k \in StoredByCompletedRun(ws_id, facts) :
                  \E i \in 1..Len(read_facts) : read_facts[i] = WithoutJobId(facts[k])
            /\ \A k \in StoredByCompletedRun(ws_id, policy) :
                  \E i \in 1..Len(read_policy) : read_policy[i] = WithoutJobId(policy[k])
            /\ (response.op = "calc" /\ response.ws_id = ws_id) =>
                  \A k \in StoredByCompletedRun(ws_id, facts) :
                      (/\ facts[k].period_month = response.period
                       /\ \E j \in StoredByCompletedRun(ws_id, policy) :
                             /\ policy[j].period_month = response.period
                             /\ normalize(policy[j].employee_name_norm)
                                    = normalize(facts[k].employee_name_norm))
                      => \E i \in 1..Len(response.items) :
                             normalize(response.items[i].employee_name_norm)
                                 = normalize(facts[k].employee_name_norm)

\* what the calculation returns after uploads: the pipeline never writes to
\* the repository calculate_period reads, so no row comes from an upload
CalculationSeesNoUpload ==
    /\ workspaces = << >> \/ \A ws_id \in DOMAIN workspaces :
                                 /\ workspaces[ws_id].facts = << >>
                                 /\ workspaces[ws_id].policy = << >>
    /\ response.op = "calc" => response.items = << >>

----------------------------------------------------------------------------
(* SpecNormalize: normalize applied to names, and to its own results *)

MaxNameLen == 3

Names == UNION {[1..n -> Chars] : n \in 0..MaxNameLen}

\* normalize(name) is called
NormalizeName(name) ==
    /\ response' = [op |-> "normalize", name |-> name, result |-> normalize(name)]
    /\ UNCHANGED <<workspaces, TAX_TABLE, hash_seed, pipeline_vars>>

\* the name to normalize is drawn at the start
InitNormalize ==
    /\ workspaces = << >>
    /\ TAX_TABLE \in CalcTaxTables
    /\ response \in {[op |-> "name", name |-> name] : name \in Names}
    /\ hash_seed = 0
    /\ PipelineIdle

NextNormalize ==
    \/ /\ response.op = "name"
       /\ NormalizeName(response.name)
    \/ /\ response.op = "normalize"
       /\ response.result # response.name
       /\ NormalizeName(response.result)

SpecNormalize == InitNormalize /\ [][NextNormalize]_vars

\* the letters of a name, whatever their case and width, without whitespace
Letter(c) == IF c \in {"A", "U+FF21"} THEN "a" ELSE c

Skeleton(name) == SelectSeq([i \in 1..Len(name) |-> Letter(name[i])], IsNonSpace)

\* C21: normalize(normalize(x)) = normalize(x) for every name x, and two names
\* that differ only in whitespace, letter case or full-width / half-width
\* form normalize to the same string.
C21_NormalizeIdempotent ==
    response.op = "normalize" =>
        /\ normalize(response.result) = response.result
        /\ \A other \in Names :
              Skeleton(other) = Skeleton(response.name)
                  => normalize(other) = response.result

\* what holds of normalize: on names without the diaeresis characters it is
\* idempotent and blind to whitespace, case and width
PlainName(name) == \A i \in 1..Len(name) : name[i] \notin {"U+00A8", "U+0308"}

NormalizePlainNames ==
    (response.op = "normalize" /\ PlainName(response.name)) =>
        /\ normalize(response.result) = response.result
        /\ \A other \in Names :
              (PlainName(other) /\ Skeleton(other) = Skeleton(response.name))
                  => normalize(other) = response.result

----------------------------------------------------------------------------
(* SpecDetect: _detect_from_tokens applied to headers *)

MaxTokens == 3

HeaderTokens ==
    { <<"metric_code">>, <<" ", "METRIC_CODE", " ">>, <<"metric_code", "_id">>,
      <<"MODE">>, <<"employee_name_norm">>, <<" ">>,
      <<"jiben", "gongzi">>, <<"shebao", "jishu">>, <<"geren", "bili">>,
      <<"queren", "gongshi">>, <<"zong", "gongshi">>, <<"xingming">> }

Headers == UNION {[1..n -> HeaderTokens] : n \in 0..MaxTokens}

DetectFromTokens ==
    /\ response.op = "header"
    /\ response' = [op |-> "detect", tokens |-> response.tokens,
                    schema |-> detect_from_tokens(response.tokens)]
    /\ UNCHANGED <<workspaces, TAX_TABLE, hash_seed, pipeline_vars>>

InitDetect ==
    /\ workspaces = << >>
    /\ TAX_TABLE \in CalcTaxTables
    /\ response \in {[op |-> "header", tokens |-> tokens] : tokens \in Headers}
    /\ hash_seed = 0
    /\ PipelineIdle

NextDetect == DetectFromTokens

SpecDetect == InitDetect /\ [][NextDetect]_vars

\* the header has a token that is exactly the word, up to surrounding
\* whitespace and letter case
HasExactToken(tokens, word) ==
    \E i \in 1..Len(tokens) : StripLower(tokens[i]) = <<word>>

\* the header has a policy, roster or timesheet keyword
HasSheetKeyword(tokens) ==
    \E i \in 1..Len(tokens) :
        \E keywords \in {KEYWORDS_POLICY, KEYWORDS_ROSTER, KEYWORDS_TIMESHEET_AGG,
                         KEYWORDS_TIMESHEET_PERSONAL} :
            \E k \in 1..Len(keywords) : Contains(tokens[i], keywords[k])

\* C22: tokens with the exact token metric_code give fact_table; otherwise
\* tokens with both mode and employee_name_norm give policy_table, whatever
\* policy, roster or timesheet keywords are present; only when neither holds
\* is the schema the one of the keyword scoring (policy_sheet, roster_sheet,
\* timesheet_aggregate, timesheet_personal or none).
C22_CanonicalFirst ==
    response.op = "detect" =>
        IF HasExactToken(response.tokens, "metric_code")
        THEN response.schema = "fact_table"
        ELSE IF HasExactToken(response.tokens, "mode")
                /\ HasExactToken(response.tokens, "employee_name_norm")
        THEN response.schema = "policy_table"
        ELSE /\ response.schema \in {"policy_sheet", "roster_sheet", "timesheet_aggregate",
                                     "timesheet_personal", "None"}
             /\ response.schema # "None" => HasSheetKeyword(response.tokens)

\* C22 witness: a header with the metric_code token, written with spaces and
\* capitals, next to policy keywords that the scoring would take as a policy sheet
C22_Witness ==
    /\ response.op = "detect"
    /\ response.schema = "fact_table"
    /\ \E i \in 1..Len(response.tokens) : response.tokens[i] = <<" ", "METRIC_CODE", " ">>
    /\ KeywordSchema(Lowered(response.tokens)) = "policy_sheet"

----------------------------------------------------------------------------
(* Failure in the middle of a file (SpecPipeline) *)

PipelineFiles == UNION {{batch[i] : i \in 1..Len(batch)} : batch \in PipelineBatches}

FileNamed(filename) == CHOOSE file \in PipelineFiles : file.filename = filename

\* FactRecord(...) raises on the row
FactRowRaises(row) == row.employee_name # << >> /\ row.metric_code \notin MetricCodes

\* the rows of a fact table before its first raising row
RowsBeforeFailure(file) ==
    LET raising == {k \in 1..Len(file.rows) : FactRowRaises(file.rows[k])}
    IN  IF raising = {} THEN file.rows
        ELSE SubSeq(file.rows, 1, (CHOOSE k \in raising : \A j \in raising : k <= j) - 1)

IsPrefix(short, long) ==
    Len(short) <= Len(long) /\ SubSeq(long, 1, Len(short)) = short

\* the facts in the store that the job stored
FactsStoredBy(ws_id, job_id) ==
    SelectSeq(state_list_facts(state_store, ws_id),
              LAMBDA fact : fact.ingest_job_id = job_id)

\* C23: when the run of a file fails while ingesting row k, the job ends
\* failed with the error message, and every record accepted from the rows
\* before k and from earlier files is still in the store: no step removes a
\* stored record.
C23_NoRollback ==
    /\ [](\A ws_id \in WsIds :
             \A k \in 1..Len(state_list_jobs(state_store, ws_id)) :
                 LET job == state_list_jobs(state_store, ws_id)[k]
                     file == FileNamed(job.filename)
                     accepted == SelectSeq(RowsBeforeFailure(file),
                                           LAMBDA row : row.employee_name # << >>)
                 IN  (job.status = "failed" /\ IsFactTable(file)
                      /\ FactColumns \subseteq file.columns) =>
                         /\ job.error # None
                         /\ FactsStoredBy(ws_id, job.job_id) =
                                [i \in 1..Len(accepted) |->
                                    IngestedFact(ws_id, file.filename, job.job_id, accepted[i])])
    /\ [][ \A ws_id \in WsIds :
             /\ IsPrefix(state_list_facts(state_store, ws_id),
                         state_list_facts(state_store', ws_id))
             /\ IsPrefix(state_list_policy(state_store, ws_id),
                         state_list_policy(state_store', ws_id)) ]_vars

\* C23 witness: a job failed on the second row of its file; the fact of its
\* first row and a fact of an earlier, completed job are in the store
C23_Witness ==
    \E ws_id \in WsIds :
        LET jobs == state_list_jobs(state_store, ws_id)
        IN  \E k \in 1..Len(jobs) :
                /\ jobs[k].status = "failed"
                /\ jobs[k].error = Text("validation error: metric_code")
                /\ Len(FactsStoredBy(ws_id, jobs[k].job_id)) = 1
                /\ \E j \in 1..(k - 1) :
                      /\ jobs[j].status = "completed"
                      /\ Len(FactsStoredBy(ws_id, jobs[j].job_id)) >= 1

----------------------------------------------------------------------------
(* Properties of the spreadsheet branch of _process_file (SpecSheets) *)

SheetFiles == UNION {{batch[i] : i \in 1..Len(batch)} : batch \in SheetBatches}

\* the identity key of a stored fact
StoredKey(fact) == <<fact.employee_name_norm, fact.metric_code, fact.metric_label>>

\* the extractors mark their facts by confidence: 0.9 the summary timesheet
\* template, 0.6 the heuristic
ByTemplate(fact) == fact.confidence = Dec(9, 1)

ByHeuristic(fact) == fact.confidence = Dec(6, 1)

\* the file a job was registered for
FileOfJob(ws_id, job_id) ==
    LET jobs == state_list_jobs(state_store, ws_id)
        job == jobs[CHOOSE k \in 1..Len(jobs) : jobs[k].job_id = job_id]
    IN  CHOOSE file \in SheetFiles : file.filename = job.filename

\* C24: a heuristic fact stored by the run of a spreadsheet has a key
\* (employee_name_norm, metric_code, metric_label) that no fact captured by the
\* template extractor for that file has, and no template fact and heuristic
\* fact stored by one run share a key.
C24_HeuristicDeduplicated ==
    \A ws_id \in DOMAIN state_store :
        LET facts == state_list_facts(state_store, ws_id)
        IN  \A k \in 1..Len(facts) :
                ByHeuristic(facts[k]) =>
                    /\ \A t \in 1..Len(AggregateFacts(FileOfJob(ws_id, facts[k].ingest_job_id), ws_id)) :
                          StoredKey(facts[k]) #
                              Signature(AggregateFacts(FileOfJob(ws_id, facts[k].ingest_job_id),
                                                       ws_id)[t])
                    /\ \A j \in 1..Len(facts) :
                          (ByTemplate(facts[j]) /\ facts[j].ingest_job_id = facts[k].ingest_job_id)
                              => StoredKey(facts[j]) # StoredKey(facts[k])

\* a completed run that stored a template fact and a heuristic fact, of a sheet
\* where the heuristic also read a cell the template had captured
C24_Witness ==
    \E ws_id \in DOMAIN state_store :
        LET facts == state_list_facts(state_store, ws_id)
            jobs == state_list_jobs(state_store, ws_id)
        IN  \E n \in 1..Len(jobs) :
                /\ jobs[n].status = "completed"
                /\ \E k, j \in 1..Len(facts) :
                      /\ facts[k].ingest_job_id = jobs[n].job_id /\ ByHeuristic(facts[k])
                      /\ facts[j].ingest_job_id = jobs[n].job_id /\ ByTemplate(facts[j])
                /\ \E file \in SheetFiles :
                      /\ file.filename = jobs[n].filename
                      /\ \E h \in 1..Len(HeuristicFacts(file, ws_id)),
                            t \in 1..Len(AggregateFacts(file, ws_id)) :
                            Signature(HeuristicFacts(file, ws_id)[h])
                                = Signature(AggregateFacts(file, ws_id)[t])

\* the placeholder of _record_unparsed
IsPlaceholder(fact) ==
    /\ fact.metric_label = <<"unparsed">>
    /\ fact.metric_code = "AMOUNT_ALLOW"
    /\ fact.metric_value = Zero
    /\ fact.confidence = Zero

\* the facts and the policy snapshots a job stored
PlaceholdersOf(ws_id, job_id) ==
    LET facts == state_list_facts(state_store, ws_id)
    IN  {k \in 1..Len(facts) : facts[k].ingest_job_id = job_id /\ IsPlaceholder(facts[k])}

OtherFactsOf(ws_id, job_id) ==
    LET facts == state_list_facts(state_store, ws_id)
    IN  {k \in 1..Len(facts) : facts[k].ingest_job_id = job_id /\ ~IsPlaceholder(facts[k])}

PoliciesOf(ws_id, job_id) ==
    LET policy == state_list_policy(state_store, ws_id)
    IN  {k \in 1..Len(policy) : policy[k].ingest_job_id = job_id}

\* the extractors return no record for the file
ExtractsNothing(file, ws_id) ==
    /\ detect_excel(file) = "timesheet_aggregate" => AggregateFacts(file, ws_id) = << >>
    /\ detect_excel(file) = "policy_sheet" => PolicySheetPolicies(file, ws_id) = << >>
    /\ HeuristicFacts(file, ws_id) = << >>
    /\ HeuristicPolicies(file, ws_id) = << >>

SheetJobs(ws_id, statuses) ==
    LET jobs == state_list_jobs(state_store, ws_id)
    IN  {jobs[k] : k \in {i \in 1..Len(jobs) : jobs[i].status \in statuses}}

\* C25 as stated: a finished run of a spreadsheet has stored the placeholder
\* if and only if it has stored no other fact and no policy snapshot, and
\* never more than one placeholder.
C25_PlaceholderIffNothingStored ==
    \A ws_id \in DOMAIN state_store :
        \A job \in SheetJobs(ws_id, {"completed", "failed"}) :
            /\ Cardinality(PlaceholdersOf(ws_id, job.job_id)) <= 1
            /\ PlaceholdersOf(ws_id, job.job_id) # {}
                   <=> (OtherFactsOf(ws_id, job.job_id) = {} /\ PoliciesOf(ws_id, job.job_id) = {})

\* C25, amended: a finished run of a spreadsheet has stored the placeholder if
\* and only if the extractors returned no record for the file; it then has
\* stored nothing else, never stores more than one placeholder, and a run that
\* completed has stored the placeholder if and only if it has stored no other
\* fact and no policy snapshot.
C25_PlaceholderIffNothingExtracted ==
    \A ws_id \in DOMAIN state_store :
        /\ \A job \in SheetJobs(ws_id, {"completed", "failed"}) :
              /\ Cardinality(PlaceholdersOf(ws_id, job.job_id)) <= 1
              /\ PlaceholdersOf(ws_id, job.job_id) # {}
                     <=> ExtractsNothing(FileOfJob(ws_id, job.job_id), ws_id)
              /\ PlaceholdersOf(ws_id, job.job_id) # {}
                     => (OtherFactsOf(ws_id, job.job_id) = {} /\ PoliciesOf(ws_id, job.job_id) = {})
        /\ \A job \in SheetJobs(ws_id, {"completed"}) :
              PlaceholdersOf(ws_id, job.job_id) # {}
                  <=> (OtherFactsOf(ws_id, job.job_id) = {} /\ PoliciesOf(ws_id, job.job_id) = {})

\* a completed run that stored the placeholder alone, a completed run that
\* stored records and no placeholder, and a failed run that stored nothing
C25_Witness ==
    \E ws_id \in DOMAIN state_store :
        /\ \E job \in SheetJobs(ws_id, {"completed"}) :
              /\ PlaceholdersOf(ws_id, job.job_id) # {}
              /\ OtherFactsOf(ws_id, job.job_id) = {} /\ PoliciesOf(ws_id, job.job_id) = {}
        /\ \E job \in SheetJobs(ws_id, {"completed"}) :
              /\ PlaceholdersOf(ws_id, job.job_id) = {}
              /\ PoliciesOf(ws_id, job.job_id) # {}
        /\ \E job \in SheetJobs(ws_id, {"failed"}) :
              /\ PlaceholdersOf(ws_id, job.job_id) = {}
              /\ OtherFactsOf(ws_id, job.job_id) = {} /\ PoliciesOf(ws_id, job.job_id) = {}

----------------------------------------------------------------------------
(* Properties of the CSV and JSON branches of _process_file (SpecPipeline) *)

\* a CSV without metric_code and mode column, a JSON object without records
\* and policy key
WithoutContent(file) ==
    \/ file.suffix = ".csv" /\ "metric_code" \notin file.columns /\ "mode" \notin file.columns
    \/ file.suffix = ".json" /\ "records" \notin file.keys /\ "policy" \notin file.keys

\* the finished jobs of the files of a kind
FinishedJobsOf(ws_id, suffix) ==
    LET jobs == state_list_jobs(state_store, ws_id)
    IN  {jobs[k] : k \in {i \in 1..Len(jobs) :
                             /\ Terminal(jobs[i].status)
                             /\ FileNamed(jobs[i].filename).suffix = suffix
                             /\ WithoutContent(FileNamed(jobs[i].filename))}}

StoredNothing(ws_id, job_id) ==
    /\ \A k \in 1..Len(state_list_facts(state_store, ws_id)) :
          state_list_facts(state_store, ws_id)[k].ingest_job_id # job_id
    /\ \A k \in 1..Len(state_list_policy(state_store, ws_id)) :
          state_list_policy(state_store, ws_id)[k].ingest_job_id # job_id

\* C26: the job of a CSV or JSON upload that holds neither fact rows nor policy
\* rows ends failed with the missing-column message as its error, and has
\* stored no fact, no policy snapshot and no placeholder.
C26_NoContentFails ==
    \A ws_id \in DOMAIN state_store :
        \A job \in FinishedJobsOf(ws_id, ".csv") \cup FinishedJobsOf(ws_id, ".json") :
            /\ job.status = "failed"
            /\ job.error # None
            /\ StoredNothing(ws_id, job.job_id)

\* the CSV half of it: _ingest_csv raises, the job fails, nothing is stored
CsvWithoutContentFails ==
    \A ws_id \in DOMAIN state_store :
        \A job \in FinishedJobsOf(ws_id, ".csv") :
            /\ job.status = "failed"
            /\ job.error = Text("csv template not recognised")
            /\ StoredNothing(ws_id, job.job_id)

\* the JSON half as the code has it: _ingest_json passes over both missing
\* keys and returns, the job completes without an error, nothing is stored
JsonWithoutContentCompletes ==
    \A ws_id \in DOMAIN state_store :
        \A job \in FinishedJobsOf(ws_id, ".json") :
            /\ job.status = "completed"
            /\ job.error = None
            /\ StoredNothing(ws_id, job.job_id)

----------------------------------------------------------------------------
(* PipelineWorker._normalise_period_month on free text                     *)
(*                                                                         *)
(* A period value is a sequence of pieces: a run of digits, a Chinese      *)
(* character (shi 十, yi 一, er 二, ba 八, la 腊, yue 月), a part of an      *)
(* English word (aug, ust) or a separator.  The result is the pair of the  *)
(* year and the two-digit month that the code joins with "-".              *)

Digits == {"2024", "1850", "8", "08", "13"}

\* int(number)
NumberValue(piece) ==
    CASE piece = "2024" -> 2024
      [] piece = "1850" -> 1850
      [] piece = "8" -> 8
      [] piece = "08" -> 8
      [] piece = "13" -> 13

\* len(number) == 4 and number.startswith(("19", "20"))
IsYear(piece) == piece = "2024"

\* raw.lower()
LowerPeriodPiece(piece) == IF piece = "Aug" THEN "aug" ELSE piece

\* f"{month_number:02d}"
TwoDigits(month) ==
    CASE month = 1 -> "01" [] month = 2 -> "02" [] month = 3 -> "03" [] month = 4 -> "04"
      [] month = 5 -> "05" [] month = 6 -> "06" [] month = 7 -> "07" [] month = 8 -> "08"
      [] month = 9 -> "09" [] month = 10 -> "10" [] month = 11 -> "11" [] month = 12 -> "12"

\* month_keywords, in the order of the dict; the formal numerals (壹, 贰, ...)
\* are written with a capital
month_keywords ==
    << << <<"jan">>, <<"jan", "uary">>, <<"yi", "yue">>, <<"Yi", "yue">>, <<"zheng", "yue">> >>,
       << <<"feb">>, <<"feb", "ruary">>, <<"er", "yue">>, <<"Er", "yue">> >>,
       << <<"mar">>, <<"mar", "ch">>, <<"san", "yue">>, <<"San", "yue">> >>,
       << <<"apr">>, <<"apr", "il">>, <<"si", "yue">>, <<"Si", "yue">> >>,
       << <<"may">>, <<"wu", "yue">>, <<"Wu", "yue">> >>,
       << <<"jun">>, <<"jun", "e">>, <<"liu", "yue">>, <<"Liu", "yue">> >>,
       << <<"jul">>, <<"jul", "y">>, <<"qi", "yue">>, <<"Qi", "yue">> >>,
       << <<"aug">>, <<"aug", "ust">>, <<"ba", "yue">>, <<"Ba", "yue">> >>,
       << <<"sep">>, <<"sep", "t">>, <<"sep", "t", "ember">>, <<"jiu", "yue">>, <<"Jiu", "yue">> >>,
       << <<"oct">>, <<"oct", "ober">>, <<"shi", "yue">>, <<"Shi", "yue">> >>,
       << <<"nov">>, <<"nov", "ember">>, <<"shi", "yi", "yue">> >>,
       << <<"dec">>, <<"dec", "ember">>, <<"shi", "er", "yue">>, <<"la", "yue">> >> >>

\* the loop over re.findall(r"\d+", raw): a year-like number sets the year, the
\* first other number sets the month when it lies in 1..12
RECURSIVE ScanDigits(_, _, _)
ScanDigits(numbers, year, month_number) ==
    IF numbers = << >> THEN [year |-> year, month_number |-> month_number]
    ELSE IF IsYear(Head(numbers)) THEN ScanDigits(Tail(numbers), Head(numbers), month_number)
    ELSE IF month_number = 0 /\ NumberValue(Head(numbers)) \in 1..12
         THEN ScanDigits(Tail(numbers), year, NumberValue(Head(numbers)))
    ELSE ScanDigits(Tail(numbers), year, month_number)

\* the first month of month_keywords one of whose keywords is in the text; 0
\* when there is none
KeywordMonth(lowered) ==
    LET found == {m \in 1..12 : \E k \in 1..Len(month_keywords[m]) :
                                   Contains(lowered, month_keywords[m][k])}
    IN  IF found = {} THEN 0 ELSE CHOOSE m \in found : \A n \in found : m <= n

\* _normalise_period_month(value, fallback) for a fallback of the form YYYY-MM
\* given as its year and month
normalise_period_text(value, fallback_year, fallback_month) ==
    LET raw == RStrip(LStrip(value))
        scanned == ScanDigits(SelectSeq(raw, LAMBDA piece : piece \in Digits), fallback_year, 0)
        lowered == [i \in 1..Len(raw) |-> LowerPeriodPiece(raw[i])]
        month_number == IF scanned.month_number # 0 THEN scanned.month_number
                        ELSE IF KeywordMonth(lowered) # 0 THEN KeywordMonth(lowered)
                        ELSE fallback_month
    IN  IF raw = << >> THEN <<fallback_year, TwoDigits(fallback_month)>>
        ELSE IF Len(raw) = 3 /\ raw[1] \in {"2024", "1850"} /\ raw[2] = "-" /\ raw[3] = "08"
        THEN <<raw[1], raw[3]>>
        ELSE <<scanned.year, TwoDigits(month_number)>>

----------------------------------------------------------------------------
(* SpecPeriod: _normalise_period_month applied to period values *)

MaxPeriodLen == 3

PeriodPieces ==
    {"shi", "yi", "er", "ba", "la", "yue", "Aug", "ust", "-", " "} \cup Digits

\* the values: no two runs of digits side by side, which would be one run
PeriodValues ==
    {value \in UNION {[1..n -> PeriodPieces] : n \in 0..MaxPeriodLen} :
        \A i \in 1..(Len(value) - 1) : ~(value[i] \in Digits /\ value[i + 1] \in Digits)}

NormalisePeriod ==
    /\ response.op = "period"
    /\ response' = [op |-> "normalised", value |-> response.value,
                    year |-> "2025", month |-> 3,
                    result |-> normalise_period_text(response.value, "2025", 3)]
    /\ UNCHANGED <<workspaces, TAX_TABLE, hash_seed, pipeline_vars>>

InitPeriod ==
    /\ workspaces = << >>
    /\ TAX_TABLE \in CalcTaxTables
    /\ response \in {[op |-> "period", value |-> value] : value \in PeriodValues}
    /\ hash_seed = 0
    /\ PipelineIdle

NextPeriod == NormalisePeriod

SpecPeriod == InitPeriod /\ [][NextPeriod]_vars

HasDigits(value) == \E i \in 1..Len(value) : value[i] \in Digits

LoweredValue(value) == [i \in 1..Len(value) |-> LowerPeriodPiece(value[i])]

\* the value is the keyword, with nothing but separators around it
IsKeywordAlone(value, keyword) ==
    SelectSeq(LoweredValue(value), LAMBDA piece : piece \notin {"-", " "}) = keyword

\* C27: a period value without digits that contains a keyword of month m is
\* normalised to the year of the workspace and the month m, for every listed
\* keyword of every month; stated here for the values that hold one keyword
\* and nothing else but separators.
C27_KeywordMonth ==
    response.op = "normalised" =>
        \A m \in 1..12 : \A k \in 1..Len(month_keywords[m]) :
            (/\ ~HasDigits(response.value)
             /\ Contains(LoweredValue(response.value), month_keywords[m][k])
             /\ IsKeywordAlone(response.value, month_keywords[m][k]))
                => response.result = <<response.year, TwoDigits(m)>>

\* what the code does instead: the month is the first month, counted from
\* January, that has a keyword in the value, so 十一月 and 十二月 give the month
\* of 一月 and 二月, which they contain
FirstMonthWins ==
    response.op = "normalised" =>
        \A m \in 1..12 :
            (/\ ~HasDigits(response.value)
             /\ \E k \in 1..Len(month_keywords[m]) :
                   Contains(LoweredValue(response.value), month_keywords[m][k])
             /\ \A n \in 1..(m - 1) : \A k \in 1..Len(month_keywords[n]) :
                   ~Contains(LoweredValue(response.value), month_keywords[n][k]))
                => response.result = <<response.year, TwoDigits(m)>>

November == <<"shi", "yi", "yue">>

\* 十一月 is normalised to January of the workspace year
NovemberGivesJanuary ==
    (response.op = "normalised" /\ response.value = November)
        => response.result = <<"2025", "01">>

----------------------------------------------------------------------------
(* The stored records over uploads, policy reads and calculations *)

\* every workspace of the store is kept, and its fact list and its policy list
\* are extended at the end or left as they are
GrowsAtEnd(before, after) ==
    \A ws_id \in DOMAIN before :
        /\ ws_id \in DOMAIN after
        /\ IsPrefix(before[ws_id].facts, after[ws_id].facts)
        /\ IsPrefix(before[ws_id].policy, after[ws_id].policy)

\* C28: over uploads, policy reads and calculations, the stored fact list and
\* policy list of each workspace only grow at the end: every stored record
\* keeps its position and its field values, and a policy read or a
\* calculation changes none of them.
C28_AppendOnly ==
    [][/\ GrowsAtEnd(workspaces, workspaces')
       /\ GrowsAtEnd(state_store, state_store')
       /\ response'.op \in {"list_policy", "calc"} =>
              \A ws_id \in DOMAIN workspaces :
                  /\ workspaces'[ws_id].facts = workspaces[ws_id].facts
                  /\ workspaces'[ws_id].policy = workspaces[ws_id].policy]_vars

\* a policy read that returned a merged snapshot which is none of the stored
\* ones, over a workspace that holds facts and several snapshots
C28_Witness ==
    /\ response.op = "list_policy"
    /\ response.ws_id \in DOMAIN workspaces
    /\ Len(workspaces[response.ws_id].facts) >= 1
    /\ Len(workspaces[response.ws_id].policy) >= 2
    /\ \E i \in 1..Len(response.items) :
          \A k \in 1..Len(workspaces[response.ws_id].policy) :
              response.items[i] # workspaces[response.ws_id].policy[k]

\* the same for the store the pipeline writes to, over concurrent uploads
PipelineStoreAppendOnly ==
    [][GrowsAtEnd(state_store, state_store')]_vars

----------------------------------------------------------------------------
(* SpecQueue: concurrent uploads into two workspaces *)

QueueWorkspaces == {"2025-01", "2025-02"}

QueueBatches == { <<FactsCsv, PolicyCsv>>, <<BrokenCsv>>, <<PolicyCsv>> }

NextQueue ==
    \/ \E r \in Requests, ws_id \in QueueWorkspaces, files \in QueueBatches :
          /\ job_counter + SumPending(Requests) + Len(files) <= MaxJobs
          /\ StartUpload(r, ws_id, files)
    \/ \E r \in Requests : AcquireAndRegister(r)
    \/ \E r \in Requests : StartProcessing(r)
    \/ \E r \in Requests : IngestFactRow(r)
    \/ \E r \in Requests : IngestPolicyRow(r)
    \/ \E r \in Requests : FinishTable(r)
    \/ \E r \in Requests : CompleteJob(r)
    \/ \E r \in Requests : FailJob(r)

SpecQueue == InitPipeline /\ [][NextQueue]_vars

\* the jobs of all workspaces
AllJobs ==
    UNION {{state_store[ws_id].jobs[k] : k \in 1..Len(state_store[ws_id].jobs)} :
              ws_id \in DOMAIN state_store}

\* the calls that are between the assignment of a job id and the terminal
\* status of that job
InsideEnqueue == {r \in Requests : calls[r].pc \in {"queued", "processing", "returned", "raised"}}

\* the number in a job id
JobNumber(job_id) == job_id[2]

\* C29: with concurrent enqueue calls into the same or different workspaces,
\* at most one job is between its id assignment and its terminal status; the
\* call that runs it holds the lock; job ids are unique and are the numbers
\* 1, 2, ... in the order of assignment.
C29_Serialised ==
    /\ Cardinality({job \in AllJobs : ~Terminal(job.status)}) <= 1
    /\ Cardinality(InsideEnqueue) <= 1
    /\ \A r \in InsideEnqueue : lock = r
    /\ \A job \in AllJobs : ~Terminal(job.status) =>
          \E r \in InsideEnqueue : calls[r].job_id = job.job_id
    /\ {JobNumber(job.job_id) : job \in AllJobs} = 1..job_counter
    /\ Cardinality(AllJobs) = job_counter
    /\ \A ws_id \in DOMAIN state_store :
          \A j, k \in 1..Len(state_store[ws_id].jobs) :
              j < k => JobNumber(state_store[ws_id].jobs[j].job_id)
                           < JobNumber(state_store[ws_id].jobs[k].job_id)

\* the steps of two runs do not interleave: a step that changes the store or
\* the counter is taken by the call that holds the lock before or after it,
\* and a run, once started, is finished before another job id is assigned
RunsDoNotInterleave ==
    [][(state_store' # state_store \/ job_counter' # job_counter) =>
          \E r \in Requests :
              /\ lock = r \/ lock' = r
              /\ lock \in {0, r} /\ lock' \in {0, r}
              /\ \A q \in Requests \ {r} : calls'[q] = calls[q]]_vars

\* two calls are in flight for different workspaces, one of them inside
\* enqueue and the other waiting for the lock, after a first job has ended
C29_Witness ==
    /\ \E r, q \in Requests :
          /\ r \in InsideEnqueue
          /\ calls[q].pc = "enqueue"
          /\ calls[r].ws_id # calls[q].ws_id
    /\ \E job \in AllJobs : Terminal(job.status)
    /\ \E job \in AllJobs : ~Terminal(job.status)

----------------------------------------------------------------------------
(* SpecIsolation: the repository and the calculation over two workspaces *)

IsolationWorkspaces == {"2025-01", "2025-02"}

IsolationFacts ==
    { Fact(NameASpaced, "2025-01", "AMOUNT_ALLOW", Dec(500, 0), "allow.csv"),
      Fact(NameB, "2025-01", "HOUR_TOTAL", Dec(160, 0), "facts.csv") }

IsolationPolicies ==
    { [Snapshot(NameA, "2025-01", "SALARIED") EXCEPT !.base_amount = Dec(10000, 0)],
      [Snapshot(NameB, "2025-01", "HOURLY") EXCEPT !.base_rate = Dec(30, 0)] }

InitIsolation ==
    /\ workspaces = << >>
    /\ TAX_TABLE \in CalcTaxTables
    /\ response = [op |-> "init"]
    /\ hash_seed = 0
    /\ PipelineIdle

NextIsolation ==
    \/ \E ws_id \in IsolationWorkspaces, record \in IsolationFacts :
          NumFacts(ws_id) < MaxFacts - 1 /\ AddFact(ws_id, record)
    \/ \E ws_id \in IsolationWorkspaces, record \in IsolationPolicies :
          NumPolicies(ws_id) < MaxPolicies - 1 /\ AddPolicy(ws_id, record)
    \/ \E ws_id \in IsolationWorkspaces : ListPolicy(ws_id)
    \/ \E ws_id \in IsolationWorkspaces : TriggerCalculation(ws_id, "2025-01", {})

SpecIsolation == InitIsolation /\ [][NextIsolation]_vars

\* the store with the workspace alone
OnlyWorkspace(store, ws_id) ==
    [w \in DOMAIN store \cap {ws_id} |-> store[w]]

\* the workspaces a step creates or changes
Touched(before, after) ==
    {w \in DOMAIN after : w \notin DOMAIN before \/ after[w] # before[w]}

\* C30: a step on one workspace leaves the facts, policy snapshots and results
\* of every other workspace as they are, and the rows a calculation or a
\* policy read returns for a workspace are the ones it returns when the store
\* holds that workspace alone.
C30_Isolated ==
    /\ [][/\ DOMAIN workspaces \subseteq DOMAIN workspaces'
          /\ Cardinality(Touched(workspaces, workspaces')) <= 1
          /\ response'.op \in {"calc", "list_policy"}
                 => Touched(workspaces, workspaces') \subseteq {response'.ws_id}]_vars
    /\ [](response.op = "list_policy" =>
             response.items = list_policy(OnlyWorkspace(workspaces, response.ws_id),
                                          response.ws_id))
    /\ [][response'.op = "calc" =>
             response'.items =
                 calculate_period(OnlyWorkspace(workspaces, response'.ws_id), response'.ws_id,
                                  response'.period, response'.selected, TAX_TABLE).items]_vars

\* a calculation for one workspace returned a row and saved it while the
\* other workspace holds facts and a policy of its own and no results
C30_Witness ==
    /\ response.op = "calc"
    /\ response.items # << >>
    /\ \E other \in DOMAIN workspaces \ {response.ws_id} :
          /\ workspaces[other].facts # << >>
          /\ workspaces[other].policy # << >>
          /\ workspaces[other].facts # workspaces[response.ws_id].facts
          /\ repo_list_results(workspaces, other, response.period) = << >>
    /\ repo_list_results(workspaces, response.ws_id, response.period) = response.items

\* the same frame for the store the pipeline writes to: an upload into one
\* workspace changes no other workspace
UploadsIsolated ==
    [][/\ DOMAIN state_store \subseteq DOMAIN state_store'
       /\ Cardinality(Touched(state_store, state_store')) <= 1
       /\ \A r \in Requests :
              (calls[r].pc # "idle" /\ calls'[r] # calls[r])
                  => Touched(state_store, state_store') \subseteq {calls[r].ws_id}]_vars

====
